---- MODULE Spec2Model ----
(***************************************************************************)
(* Spyster: a social-deduction party game served from a Home Assistant     *)
(* integration.  One GameState object holds the whole game; WebSocket      *)
(* handlers and named asyncio timers drive it through the phases           *)
(* LOBBY, ROLES, QUESTIONING, VOTE, REVEAL, SCORING, END and PAUSED.       *)
(*                                                                         *)
(* The module models GameState (game/state.py), role assignment            *)
(* (game/roles.py), scoring (game/scoring.py) and the message handlers of  *)
(* server/websocket.py.  Every handler and every timer callback is one     *)
(* action; a handler that awaits a broadcast in the middle of its work is  *)
(* split at that await.                                                    *)
(***************************************************************************)
EXTENDS Integers, Sequences, FiniteSets, TLC

(***************************************************************************)
(* Constants of const.py, game/config.py and game/scoring.py               *)
(***************************************************************************)
MIN_PLAYERS == 4
MAX_PLAYERS == 10
RECONNECT_WINDOW_SECONDS == 300
MIN_DISCONNECT_DURATION_FOR_REMOVAL == 60
DEFAULT_ROUND_COUNT == 5
CONFIG_MIN_ROUNDS == 1
CONFIG_MAX_ROUNDS == 20
CONFIG_DEFAULT_ROUNDS == 5
CONFIG_MIN_ROUND_DURATION == 1
CONFIG_MAX_ROUND_DURATION == 30
CONFIG_DEFAULT_ROUND_DURATION == 7
CONFIG_DEFAULT_LOCATION_PACK == "classic"
POINTS_DOUBLE_AGENT_BONUS == 10
POINTS_SPY_GUESS_CORRECT == 10
POINTS_SPY_GUESS_WRONG == -5

ERR_INVALID_MESSAGE == "INVALID_MESSAGE"
ERR_INVALID_PHASE == "INVALID_PHASE"
ERR_INVALID_PHASE_TRANSITION == "INVALID_PHASE_TRANSITION"
ERR_NOT_HOST == "NOT_HOST"
ERR_NOT_IN_GAME == "NOT_IN_GAME"
ERR_GAME_FULL == "GAME_FULL"
ERR_GAME_ALREADY_STARTED == "GAME_ALREADY_STARTED"
ERR_NOT_ENOUGH_PLAYERS == "NOT_ENOUGH_PLAYERS"
ERR_ROLE_ASSIGNMENT_FAILED == "ROLE_ASSIGNMENT_FAILED"
ERR_CONFIG_INVALID_DURATION == "CONFIG_INVALID_DURATION"
ERR_CONFIG_INVALID_ROUNDS == "CONFIG_INVALID_ROUNDS"
ERR_CONFIG_INVALID_PACK == "CONFIG_INVALID_PACK"
ERR_CONFIG_GAME_STARTED == "CONFIG_GAME_STARTED"
ERR_ALREADY_VOTED == "ALREADY_VOTED"
ERR_INVALID_TARGET == "INVALID_TARGET"
ERR_NO_TARGET_SELECTED == "NO_TARGET_SELECTED"
ERR_NOT_SPY == "NOT_SPY"
ERR_SPY_ALREADY_ACTED == "SPY_ALREADY_ACTED"
ERR_INVALID_LOCATION == "INVALID_LOCATION"
ERR_INVALID_TOKEN == "INVALID_TOKEN"
ERR_SESSION_EXPIRED == "SESSION_EXPIRED"
ERR_CANNOT_REMOVE_CONNECTED == "CANNOT_REMOVE_CONNECTED"
ERR_PLAYER_NOT_FOUND == "PLAYER_NOT_FOUND"

\* Python's None, and the exception that escapes a handler
None == "None"
\* caller name call_vote receives from the round timer
TIMER_CALLER == "[TIMER]"

(***************************************************************************)
(* Bounds of the exploration                                               *)
(***************************************************************************)
\* rounds a game is followed through
MaxRound == 2
\* vote messages the players send after the first round
MaxLateVotes == 0
\* _handle_vote coroutines suspended in their broadcast at one time
MaxSuspended == 1
\* direct process_conviction calls in one round
MaxConvictionCalls == 1
\* WebSockets that close during a game
MaxDisconnects == 1
\* session tokens generated for one name
MaxTokens == 2
MaxNow == 360
TickSeconds == 60

\* the names a session may carry, in the order Python sorts them;
\* "HostDisplay" is the name _handle_host_join_as_player treats as free
NameOrder == <<"HostDisplay", "alice", "bob", "carol", "dana">>
Names == {NameOrder[i] : i \in 1..Len(NameOrder)}
\* the names the players of a game join under
JoinNames == {"alice", "bob", "carol", "dana"}
\* the client that joins again under the name it already has
RejoinNames == {"alice"}
\* the names a lobby is filled with, one more than the game has room for
CrowdNames == {"alice", "bob", "carol", "dana", "erin", "frank", "grace",
               "heidi", "ivan", "judy", "karl"}
\* the only client that joins with is_host set
HostNames == {"alice"}
\* the players that send call_vote
CallerNames == {"bob"}
\* the players a vote message names
TargetInputs == {"alice", "bob"}
\* confidence values a vote message carries
ConfidenceInputs == {3}
\* location ids a spy_guess message carries
GuessInputs == {"beach", "bank", "moon"}
\* configure messages the host sends
ConfigInputs == {<<"num_rounds", 0>>, <<"num_rounds", 1>>, <<"rounds", 1>>}

(***************************************************************************)
(* Content: the location packs of game/content.py                          *)
(***************************************************************************)
PackIds == {"classic", "custom"}

ClassicLocations == <<
    [id |-> "beach", name |-> "Beach", roles |-> <<"Lifeguard">>],
    [id |-> "bank",  name |-> "Bank",  roles |-> <<"Teller">>] >>

CustomLocations == << [id |-> "lab", name |-> "Lab", roles |-> <<"Chemist">>] >>

PackLocations(pack_id) ==
    IF pack_id = "classic" THEN ClassicLocations ELSE CustomLocations

Range(s) == {s[i] : i \in DOMAIN s}

(***************************************************************************)
(* The phase state machine                                                 *)
(***************************************************************************)
Phases == {"LOBBY", "ROLES", "QUESTIONING", "VOTE", "REVEAL", "SCORING",
           "END", "PAUSED"}

VALID_TRANSITIONS ==
    [p \in Phases |->
        CASE p = "LOBBY"       -> {"ROLES", "PAUSED"}
          [] p = "ROLES"       -> {"QUESTIONING", "PAUSED"}
          [] p = "QUESTIONING" -> {"VOTE", "PAUSED"}
          [] p = "VOTE"        -> {"REVEAL", "PAUSED"}
          [] p = "REVEAL"      -> {"SCORING", "PAUSED"}
          [] p = "SCORING"     -> {"ROLES", "END", "PAUSED"}
          [] p = "END"         -> {"LOBBY", "PAUSED"}
          [] p = "PAUSED"      -> {"LOBBY", "ROLES", "QUESTIONING", "VOTE",
                                   "REVEAL", "SCORING"}]

\* the names GameState._timers is keyed by: the phase timers, and one
\* disconnect-grace timer per player
PhaseTimers == {"round", "vote", "role_display", "scoring", "reveal_delay"}

GraceTimer(name) ==
    CASE name = "HostDisplay" -> "disconnect_grace:HostDisplay"
      [] name = "alice" -> "disconnect_grace:alice"
      [] name = "bob"   -> "disconnect_grace:bob"
      [] name = "carol" -> "disconnect_grace:carol"
      [] OTHER          -> "disconnect_grace:dana"

ReconnectTimer(name) ==
    CASE name = "HostDisplay" -> "reconnect_window:HostDisplay"
      [] name = "alice" -> "reconnect_window:alice"
      [] name = "bob"   -> "reconnect_window:bob"
      [] name = "carol" -> "reconnect_window:carol"
      [] OTHER          -> "reconnect_window:dana"

TimerNames ==
    PhaseTimers \cup {GraceTimer(n) : n \in Names}
                \cup {ReconnectTimer(n) : n \in Names}

VARIABLES
    phase,             \* GameState.phase
    previous_phase,    \* GameState.previous_phase
    players,           \* GameState.players: name -> PlayerSession
    host_id,           \* GameState.host_id
    timers,            \* GameState._timers: name -> none / pending / done
    votes,             \* GameState.votes: voter -> vote
    spy_guess,         \* GameState.spy_guess: <<>> or <<guess>>
    spy_action_taken,  \* GameState.spy_action_taken
    convicted_player,  \* GameState.convicted_player
    vote_results,      \* GameState.vote_results
    round_scores,      \* GameState.round_scores
    spy_caught,        \* GameState.spy_caught
    config,            \* GameState.config
    current_round,     \* GameState.current_round
    game_started,      \* GameState._game_started
    player_count,      \* GameState.player_count
    spy_name,          \* GameState._spy_name
    current_location,  \* GameState._current_location (its id)
    player_roles,      \* GameState._player_roles: name -> role
    vote_caller,       \* GameState.vote_caller
    loaded_packs,      \* content._LOADED_PACKS (ids)
    suspended,         \* voters whose _handle_vote awaits its broadcast
    score_before,      \* history: cumulative scores when the round began
    conviction_calls,  \* history: direct process_conviction calls this round
    late_votes,        \* history: votes recorded after the first round
    ws_open,           \* players whose session has an open WebSocket
    disconnects,       \* history: sockets closed so far
    transition_result, \* history: what the last transition_to call returned
    turn_order,            \* GameState._turn_order
    current_questioner_id, \* GameState.current_questioner_id
    current_answerer_id,   \* GameState.current_answerer_id
    sessions,          \* GameState.sessions: token -> the session's name and host flag
    issued,            \* tokens generated so far for sessions created under a name
    now,               \* time.time(), in seconds
    window_due,        \* when a player's reconnect_window timer is due
    tasks              \* timer name -> number of tasks start_timer created that are
                       \* neither finished nor cancelled; counted where the registry
                       \* is driven on its own (SpecTimers)

vars == <<phase, previous_phase, players, host_id, timers, votes, spy_guess,
          spy_action_taken, convicted_player, vote_results, round_scores,
          spy_caught, config, current_round, game_started, player_count,
          spy_name, current_location, player_roles, vote_caller,
          loaded_packs, suspended, score_before, conviction_calls,
          late_votes, ws_open, disconnects, transition_result,
          turn_order, current_questioner_id, current_answerer_id,
          sessions, issued, now, window_due, tasks>>

\* the fields of one round's voting and scoring
roundVars == <<votes, spy_guess, spy_action_taken, convicted_player,
               vote_results, round_scores, spy_caught, vote_caller>>
\* the fields role assignment writes
roleVars == <<spy_name, current_location, player_roles>>
histVars == <<score_before, conviction_calls, late_votes, transition_result>>
\* the fields of the questioning turns
turnVars == <<turn_order, current_questioner_id, current_answerer_id>>
\* the token registry, the tokens drawn, the clock and the timer tasks
sessVars == <<sessions, issued, now, window_due, tasks>>

EmptyFn == [x \in {} |-> None]

EmptyVoteResults ==
    [computed |-> FALSE, vote_counts |-> [n \in Names |-> 0],
     convicted |-> None, max_votes |-> 0, total_votes |-> 0, abstentions |-> 0]

GameConfig ==
    [round_duration_minutes |-> CONFIG_DEFAULT_ROUND_DURATION,
     num_rounds |-> CONFIG_DEFAULT_ROUNDS,
     location_pack |-> CONFIG_DEFAULT_LOCATION_PACK]

\* the packs _LOADED_PACKS may hold when the integration is set up: the
\* default pack, only another pack, or none at all
ContentStates == {{"classic", "custom"}, {"custom"}, {}}

Init ==
    /\ phase = "LOBBY"
    /\ previous_phase = None
    /\ players = EmptyFn
    /\ host_id = "default_host"
    /\ timers = [t \in TimerNames |-> "none"]
    /\ votes = EmptyFn
    /\ spy_guess = <<>>
    /\ spy_action_taken = FALSE
    /\ convicted_player = None
    /\ vote_results = EmptyVoteResults
    /\ round_scores = EmptyFn
    /\ spy_caught = FALSE
    /\ config = GameConfig
    /\ current_round = 0
    /\ game_started = FALSE
    /\ player_count = 0
    /\ spy_name = None
    /\ current_location = None
    /\ player_roles = EmptyFn
    /\ vote_caller = None
    /\ loaded_packs \in ContentStates
    /\ suspended = {}
    /\ score_before = EmptyFn
    /\ conviction_calls = 0
    /\ late_votes = 0
    /\ ws_open = {}
    /\ disconnects = 0
    /\ transition_result = [to |-> None, ok |-> TRUE, err |-> None]
    /\ turn_order = <<>>
    /\ current_questioner_id = None
    /\ current_answerer_id = None
    /\ sessions = EmptyFn
    /\ issued = [n \in Names \cup CrowdNames |-> 0]
    /\ now = 0
    /\ window_due = [n \in Names |-> None]
    /\ tasks = [t \in TimerNames |-> 0]

(***************************************************************************)
(* GameState.can_transition / transition_to                                *)
(***************************************************************************)
can_transition(ph, to_phase) ==
    IF to_phase \in VALID_TRANSITIONS[ph]
    THEN [ok |-> TRUE, err |-> None]
    ELSE [ok |-> FALSE, err |-> ERR_INVALID_PHASE]

\* transition_to remembering the interrupted phase before it validates
transition_to_eager(ph, prev, new_phase) ==
    LET c == can_transition(ph, new_phase) IN
    [ok |-> c.ok, err |-> c.err,
     phase |-> IF c.ok THEN new_phase ELSE ph,
     previous_phase |->
        IF new_phase = "PAUSED" THEN ph
        ELSE IF ph = "PAUSED" /\ prev # None /\ c.ok THEN None
        ELSE prev]

\* the result of transition_to(new_phase) on a state whose phase is ph and
\* whose remembered phase is prev
transition_to(ph, prev, new_phase) ==
    LET c == can_transition(ph, new_phase) IN
    IF ~c.ok
    THEN [ok |-> FALSE, err |-> c.err, phase |-> ph, previous_phase |-> prev]
    ELSE [ok |-> TRUE, err |-> None, phase |-> new_phase,
          previous_phase |->
             IF new_phase = "PAUSED" THEN ph
             ELSE IF ph = "PAUSED" /\ prev # None THEN None
             ELSE prev]

TransitionTo(new_phase) ==
    LET r == transition_to(phase, previous_phase, new_phase) IN
    /\ phase' = r.phase
    /\ previous_phase' = r.previous_phase
    /\ transition_result' = [to |-> new_phase, ok |-> r.ok, err |-> r.err]
    /\ UNCHANGED <<players, host_id, timers, config, current_round,
                   game_started, player_count, loaded_packs, ws_open, disconnects, suspended>>
    /\ UNCHANGED <<roundVars, roleVars, turnVars, sessVars, score_before, conviction_calls,
                   late_votes>>

(***************************************************************************)
(* Lobby: join                                                             *)
(***************************************************************************)
\* secrets.token_urlsafe: a token no session was given before
NewToken(name) == <<name, issued[name] + 1>>

\* PlayerSession.create_new; disconnected_at is <<>> for None and <<t>>
\* for the time t
PlayerSession(name, is_host) ==
    [connected |-> TRUE, is_host |-> is_host, score |-> 0,
     session_token |-> NewToken(name), disconnected_at |-> <<>>]

ConnectedPlayers == {n \in DOMAIN players : players[n].connected}

JoinError_unbounded(name) ==
    IF phase # "LOBBY" THEN ERR_GAME_ALREADY_STARTED
    ELSE None

\* _handle_join: phase and capacity checks, add_player, host registration
JoinError(name) ==
    IF phase # "LOBBY" THEN ERR_GAME_ALREADY_STARTED
    ELSE IF Cardinality(DOMAIN players) >= MAX_PLAYERS
            /\ name \notin DOMAIN players THEN ERR_GAME_FULL
    ELSE None

add_player(name, is_host) ==
    [n \in (DOMAIN players) \cup {name} |->
        IF n = name THEN PlayerSession(name, is_host) ELSE players[n]]

add_session_kept(name, is_host) ==
    [t \in (DOMAIN sessions) \cup {NewToken(name)} |->
        IF t = NewToken(name) THEN [name |-> name, is_host |-> is_host]
        ELSE sessions[t]]

\* add_player on the token registry: the replaced session's token goes,
\* the new session's token comes
add_session(name, is_host) ==
    LET old == IF name \in DOMAIN players
               THEN {players[name].session_token} ELSE {}
    IN [t \in ((DOMAIN sessions) \ old) \cup {NewToken(name)} |->
           IF t = NewToken(name) THEN [name |-> name, is_host |-> is_host]
           ELSE sessions[t]]

HandleJoin(name, is_host) ==
    /\ JoinError(name) = None
    /\ issued[name] < MaxTokens
    /\ players' = add_player(name, is_host)
    /\ sessions' = add_session(name, is_host)
    /\ issued' = [issued EXCEPT ![name] = @ + 1]
    /\ player_count' = Cardinality(DOMAIN players')
    /\ host_id' = IF is_host THEN name ELSE host_id
    /\ ws_open' = ws_open \cup {name}
    /\ UNCHANGED <<phase, previous_phase, timers, config, current_round,
                   game_started, loaded_packs, disconnects, suspended>>
    /\ UNCHANGED <<roundVars, roleVars, turnVars, histVars, now, window_due, tasks>>

(***************************************************************************)
(* Lobby: configure                                                        *)
(***************************************************************************)
\* GameConfig.validate
validate(cfg) ==
    IF cfg.round_duration_minutes < CONFIG_MIN_ROUND_DURATION
       \/ cfg.round_duration_minutes > CONFIG_MAX_ROUND_DURATION
    THEN ERR_CONFIG_INVALID_DURATION
    ELSE IF cfg.num_rounds < CONFIG_MIN_ROUNDS
            \/ cfg.num_rounds > CONFIG_MAX_ROUNDS
    THEN ERR_CONFIG_INVALID_ROUNDS
    ELSE IF cfg.location_pack \notin PackIds THEN ERR_CONFIG_INVALID_PACK
    ELSE None

update_config_reverting(field, value) ==
    IF phase # "LOBBY"
    THEN [ok |-> FALSE, err |-> ERR_CONFIG_GAME_STARTED, config |-> config]
    ELSE IF field \notin {"round_duration_minutes", "num_rounds", "location_pack"}
    THEN [ok |-> FALSE, err |-> ERR_INVALID_MESSAGE, config |-> config]
    ELSE LET written == [config EXCEPT ![field] = value]
             e == validate(written)
         IN IF e # None
            THEN [ok |-> FALSE, err |-> e, config |-> config]
            ELSE [ok |-> TRUE, err |-> None, config |-> written]

\* update_config: the field is written first and validated afterwards; an
\* invalid value resets the whole configuration to its defaults
update_config(field, value) ==
    IF phase # "LOBBY"
    THEN [ok |-> FALSE, err |-> ERR_CONFIG_GAME_STARTED, config |-> config]
    ELSE IF field \notin {"round_duration_minutes", "num_rounds", "location_pack"}
    THEN [ok |-> FALSE, err |-> ERR_INVALID_MESSAGE, config |-> config]
    ELSE LET written == [config EXCEPT ![field] = value]
             e == validate(written)
         IN IF e # None
            THEN [ok |-> FALSE, err |-> e, config |-> GameConfig]
            ELSE [ok |-> TRUE, err |-> None, config |-> written]

\* _handle_configure: the sender must be a registered player flagged as host
ConfigureError(name) ==
    IF name \notin DOMAIN players THEN ERR_NOT_IN_GAME
    ELSE IF ~players[name].is_host THEN ERR_NOT_HOST
    ELSE None

HandleConfigure(name, field, value) ==
    /\ name \in ws_open
    /\ ConfigureError(name) = None
    /\ update_config(field, value).err # ERR_CONFIG_GAME_STARTED
    /\ config' = update_config(field, value).config
    /\ UNCHANGED <<phase, previous_phase, players, host_id, timers,
                   current_round, game_started, player_count, loaded_packs, ws_open, disconnects,
                   suspended>>
    /\ UNCHANGED <<roundVars, roleVars, turnVars, sessVars, histVars>>

(***************************************************************************)
(* Timers: GameState.start_timer / cancel_timer / cancel_all_timers        *)
(***************************************************************************)
\* an entry is deleted only while its task has not finished
cancel_timer(tm, name) ==
    IF tm[name] = "pending" THEN [tm EXCEPT ![name] = "none"] ELSE tm

start_timer(tm, name) == [cancel_timer(tm, name) EXCEPT ![name] = "pending"]

cancel_all_timers(tm) == [t \in TimerNames |-> "none"]

\* _timer_task after its callback returned: the task is finished, and its
\* entry stays in _timers unless the callback deleted it
timer_done(tm, name) ==
    IF tm[name] = "pending" THEN [tm EXCEPT ![name] = "done"] ELSE tm

\* the tasks of one name that asyncio still runs: cancel_timer cancels the
\* registered task when it has not finished
cancel_timer_tasks(tk, tm, name) ==
    IF tm[name] = "pending" THEN [tk EXCEPT ![name] = @ - 1] ELSE tk

start_timer_tasks_uncancelled(tk, tm, name) == [tk EXCEPT ![name] = @ + 1]

\* start_timer: cancel_timer(name), then asyncio.create_task
start_timer_tasks(tk, tm, name) ==
    [cancel_timer_tasks(tk, tm, name) EXCEPT ![name] = @ + 1]

(***************************************************************************)
(* Role assignment: game/roles.py                                          *)
(***************************************************************************)
\* content.get_random_location: the locations secrets.choice may return;
\* {} stands for the None it returns when the pack is not loaded
get_random_location(pack_id) ==
    IF pack_id \in loaded_packs THEN Range(PackLocations(pack_id)) ELSE {}

LocationById(id) ==
    CHOOSE l \in Range(ClassicLocations) \cup Range(CustomLocations) : l.id = id

\* the role draws secrets.choice may make for the non-spy players
RoleDraws(location, spy) ==
    [ConnectedPlayers \ {spy} -> Range(location.roles)]

\* assign_roles without the player count check of assign_spy
assign_roles_unchecked(location, spy, draw) ==
    IF loaded_packs = {}
    THEN [status |-> "RuntimeError", current_location |-> current_location,
          spy_name |-> spy_name, player_roles |-> player_roles]
    ELSE IF get_random_location(config.location_pack) = {}
    THEN [status |-> "ValueError", current_location |-> None,
          spy_name |-> spy_name, player_roles |-> player_roles]
    ELSE IF Len(location.roles) = 0
    THEN [status |-> "ValueError", current_location |-> location.id,
          spy_name |-> spy, player_roles |-> player_roles]
    ELSE [status |-> "ok", current_location |-> location.id,
          spy_name |-> spy, player_roles |-> draw]

\* assign_roles with the three random draws given; on an exception the
\* fields written before it keep their new values
assign_roles(location, spy, draw) ==
    IF loaded_packs = {}
    THEN [status |-> "RuntimeError", current_location |-> current_location,
          spy_name |-> spy_name, player_roles |-> player_roles]
    ELSE IF get_random_location(config.location_pack) = {}
    THEN [status |-> "ValueError", current_location |-> None,
          spy_name |-> spy_name, player_roles |-> player_roles]
    ELSE IF Cardinality(ConnectedPlayers) < MIN_PLAYERS
    THEN [status |-> "ValueError", current_location |-> location.id,
          spy_name |-> spy_name, player_roles |-> player_roles]
    ELSE IF Len(location.roles) = 0
    THEN [status |-> "ValueError", current_location |-> location.id,
          spy_name |-> spy, player_roles |-> player_roles]
    ELSE [status |-> "ok", current_location |-> location.id,
          spy_name |-> spy, player_roles |-> draw]

\* the draws secrets.choice can make in the current state; when a draw is
\* never made its place is filled with a fixed value
NoLocation == [id |-> None, name |-> None, roles |-> <<>>]

LocationDraws ==
    IF get_random_location(config.location_pack) = {} THEN {NoLocation}
    ELSE get_random_location(config.location_pack)

SpyDraws ==
    IF Cardinality(ConnectedPlayers) < MIN_PLAYERS THEN {None}
    ELSE ConnectedPlayers

RoleDrawsOf(location, spy) ==
    IF location = NoLocation \/ spy = None \/ Len(location.roles) = 0
    THEN {EmptyFn}
    ELSE RoleDraws(location, spy)

(***************************************************************************)
(* GameState.start_game, behind _handle_admin / _handle_start_game         *)
(***************************************************************************)
\* _handle_admin: who may send an admin action
AdminError(name) ==
    IF name \notin DOMAIN players THEN ERR_NOT_IN_GAME
    ELSE IF ~players[name].is_host THEN ERR_NOT_HOST
    ELSE IF host_id # None /\ host_id # name THEN ERR_NOT_HOST
    ELSE None

\* the checks of start_game that precede any mutation
can_start_game ==
    IF phase # "LOBBY" THEN ERR_INVALID_PHASE
    ELSE IF game_started THEN ERR_GAME_ALREADY_STARTED
    ELSE IF Cardinality(ConnectedPlayers) < MIN_PLAYERS
    THEN ERR_NOT_ENOUGH_PLAYERS
    ELSE IF Cardinality(ConnectedPlayers) > MAX_PLAYERS THEN ERR_GAME_FULL
    ELSE None

\* start_game past its checks: the state it leaves and the value it returns
\* ("RuntimeError" when the exception of get_random_location escapes)
start_game(location, spy, draw) ==
    LET t == transition_to(phase, previous_phase, "ROLES")
        a == assign_roles(location, spy, draw)
        back == transition_to(t.phase, t.previous_phase, "LOBBY")
    IN  IF ~t.ok
        THEN [ok |-> FALSE, err |-> t.err, phase |-> phase,
              previous_phase |-> previous_phase, current_round |-> current_round,
              game_started |-> game_started, roles |-> a, timer |-> FALSE,
              last |-> [to |-> "ROLES", ok |-> t.ok, err |-> t.err]]
        ELSE IF a.status = "RuntimeError"
        THEN [ok |-> FALSE, err |-> "RuntimeError", phase |-> t.phase,
              previous_phase |-> t.previous_phase, current_round |-> 1,
              game_started |-> TRUE, roles |-> a, timer |-> FALSE,
              last |-> [to |-> "ROLES", ok |-> t.ok, err |-> t.err]]
        ELSE IF a.status = "ValueError"
        THEN [ok |-> FALSE, err |-> ERR_ROLE_ASSIGNMENT_FAILED,
              phase |-> back.phase, previous_phase |-> back.previous_phase,
              current_round |-> 0, game_started |-> FALSE, roles |-> a,
              timer |-> FALSE,
              last |-> [to |-> "LOBBY", ok |-> back.ok, err |-> back.err]]
        ELSE [ok |-> TRUE, err |-> None, phase |-> t.phase,
              previous_phase |-> t.previous_phase, current_round |-> 1,
              game_started |-> TRUE, roles |-> a, timer |-> TRUE,
              last |-> [to |-> "ROLES", ok |-> t.ok, err |-> t.err]]

HandleStartGame(name, location, spy, draw) ==
    /\ name \in ws_open
    /\ AdminError(name) = None
    /\ can_start_game = None
    /\ LET r == start_game(location, spy, draw) IN
       /\ player_count' = Cardinality(ConnectedPlayers)
       /\ phase' = r.phase
       /\ previous_phase' = r.previous_phase
       /\ current_round' = r.current_round
       /\ game_started' = r.game_started
       /\ current_location' = r.roles.current_location
       /\ spy_name' = r.roles.spy_name
       /\ player_roles' = r.roles.player_roles
       /\ timers' = IF r.timer THEN start_timer(timers, "role_display")
                    ELSE timers
       /\ transition_result' = r.last
    /\ score_before' = [n \in DOMAIN players |-> players[n].score]
    /\ UNCHANGED <<players, host_id, config, loaded_packs, ws_open, disconnects, suspended,
                   conviction_calls, late_votes>>
    /\ UNCHANGED <<roundVars, turnVars, sessVars>>

(***************************************************************************)
(* ROLES and QUESTIONING                                                   *)
(***************************************************************************)
\* transition_to_questioning followed by start_round_timer
transition_to_questioning(ph, tm) ==
    IF ph # "ROLES"
    THEN [ok |-> FALSE, err |-> ERR_INVALID_PHASE_TRANSITION, phase |-> ph,
          timers |-> tm]
    ELSE IF config.round_duration_minutes <= 0
    THEN [ok |-> FALSE, err |-> "NO_ROUND_DURATION", phase |-> ph, timers |-> tm]
    ELSE [ok |-> TRUE, err |-> None, phase |-> "QUESTIONING",
          timers |-> start_timer(tm, "round")]

\* the connected players in the order Python sorts their names
SortedConnected == SelectSeq(NameOrder, LAMBDA n : n \in ConnectedPlayers)

Reverse(s) == [i \in 1..Len(s) |-> s[Len(s) + 1 - i]]

\* the orders the shuffle of initialize_turn_order is followed through
TurnOrderDraws == {SortedConnected, Reverse(SortedConnected)}

\* initialize_turn_order with the shuffle given: the first two players of
\* the order ask and answer
initialize_turn_order(order) ==
    [turn_order |-> order,
     current_questioner_id |->
        IF Len(order) >= 2 THEN order[1] ELSE current_questioner_id,
     current_answerer_id |->
        IF Len(order) >= 2 THEN order[2] ELSE current_answerer_id]

\* _on_role_display_complete, run by the role_display timer
OnRoleDisplayComplete ==
    /\ timers["role_display"] = "pending"
    /\ \E order \in TurnOrderDraws :
          LET t == initialize_turn_order(order) IN
          /\ turn_order' = t.turn_order
          /\ current_questioner_id' = t.current_questioner_id
          /\ current_answerer_id' = t.current_answerer_id
    /\ LET r == transition_to_questioning(phase, timers) IN
       /\ phase' = r.phase
       /\ timers' = timer_done(r.timers, "role_display")
    /\ UNCHANGED <<previous_phase, players, host_id, config, current_round,
                   game_started, player_count, loaded_packs, ws_open, disconnects, suspended>>
    /\ UNCHANGED <<roundVars, roleVars, histVars, sessVars>>

\* call_vote leaving the round timer running
call_vote_round_kept(caller_name) ==
    IF phase # "QUESTIONING"
    THEN [ok |-> FALSE, err |-> ERR_INVALID_PHASE, phase |-> phase,
          vote_caller |-> vote_caller, timers |-> timers]
    ELSE [ok |-> TRUE, err |-> None, phase |-> "VOTE",
          vote_caller |-> caller_name,
          timers |-> start_timer(timers, "vote")]

\* call_vote: the fields it leaves
call_vote(caller_name) ==
    IF phase # "QUESTIONING"
    THEN [ok |-> FALSE, err |-> ERR_INVALID_PHASE, phase |-> phase,
          vote_caller |-> vote_caller, timers |-> timers]
    ELSE [ok |-> TRUE, err |-> None, phase |-> "VOTE",
          vote_caller |-> caller_name,
          timers |-> start_timer(cancel_timer(timers, "round"), "vote")]

\* _handle_call_vote: any registered player
HandleCallVote(name) ==
    /\ name \in ws_open
    /\ name \notin suspended
    /\ LET r == call_vote(name) IN
       /\ r.ok
       /\ phase' = r.phase
       /\ vote_caller' = r.vote_caller
       /\ timers' = r.timers
    /\ UNCHANGED <<previous_phase, players, host_id, config, current_round,
                   game_started, player_count, loaded_packs, ws_open, disconnects, suspended, votes,
                   spy_guess, spy_action_taken, convicted_player, vote_results,
                   round_scores, spy_caught>>
    /\ UNCHANGED <<roleVars, turnVars, sessVars, histVars>>

\* _on_round_timer_expired, run by the round timer
OnRoundTimerExpired ==
    /\ timers["round"] = "pending"
    /\ LET r == IF phase # "QUESTIONING"
                THEN [phase |-> phase, vote_caller |-> vote_caller,
                      timers |-> timers]
                ELSE call_vote(TIMER_CALLER)
       IN /\ phase' = r.phase
          /\ vote_caller' = r.vote_caller
          /\ timers' = timer_done(r.timers, "round")
    /\ UNCHANGED <<previous_phase, players, host_id, config, current_round,
                   game_started, player_count, loaded_packs, ws_open, disconnects, suspended, votes,
                   spy_guess, spy_action_taken, convicted_player, vote_results,
                   round_scores, spy_caught>>
    /\ UNCHANGED <<roleVars, turnVars, sessVars, histVars>>

(***************************************************************************)
(* VOTE: record_vote, record_spy_guess, the vote timer                     *)
(***************************************************************************)
\* _all_votes_submitted over a vote dictionary
all_votes_submitted(vs) == \A n \in ConnectedPlayers : n \in DOMAIN vs

\* record_vote without its check that the target is not the voter
record_vote_error_selfvote(player_name, target) ==
    IF phase # "VOTE" THEN ERR_INVALID_PHASE
    ELSE IF player_name \notin DOMAIN players THEN "PLAYER_NOT_FOUND"
    ELSE IF ~players[player_name].connected THEN "PLAYER_NOT_FOUND"
    ELSE IF player_name \in DOMAIN votes THEN ERR_ALREADY_VOTED
    ELSE IF target \notin DOMAIN players THEN ERR_INVALID_TARGET
    ELSE None

\* the error record_vote returns, None when it accepts
record_vote_error(player_name, target) ==
    IF phase # "VOTE" THEN ERR_INVALID_PHASE
    ELSE IF player_name \notin DOMAIN players THEN "PLAYER_NOT_FOUND"
    ELSE IF ~players[player_name].connected THEN "PLAYER_NOT_FOUND"
    ELSE IF player_name \in DOMAIN votes THEN ERR_ALREADY_VOTED
    ELSE IF target \notin DOMAIN players THEN ERR_INVALID_TARGET
    ELSE IF target = player_name THEN ERR_INVALID_TARGET
    ELSE None

\* the vote record_vote stores: a confidence outside {1,2,3} becomes 1
recorded_vote(target, confidence) ==
    [target |-> target,
     confidence |-> IF confidence \in {1, 2, 3} THEN confidence ELSE 1,
     abstained |-> FALSE]

PutVote(vs, name, v) ==
    [n \in (DOMAIN vs) \cup {name} |-> IF n = name THEN v ELSE vs[n]]

\* calculate_vote_results: votes are counted per target and the targets are
\* walked in sorted order, a later one winning only with strictly more votes
vote_counts(vs) ==
    [t \in Names |->
        Cardinality({v \in DOMAIN vs : vs[v].target = t})]

RECURSIVE convict(_, _, _, _)
convict(counts, i, best, max_votes) ==
    IF i > Len(NameOrder) THEN [convicted |-> best, max_votes |-> max_votes]
    ELSE IF counts[NameOrder[i]] > max_votes
    THEN convict(counts, i + 1, NameOrder[i], counts[NameOrder[i]])
    ELSE convict(counts, i + 1, best, max_votes)

\* the place of a name in sorted order
NamePos(n) == CHOOSE i \in 1..Len(NameOrder) : NameOrder[i] = n

\* calculate_vote_results with a tie going to the last name in sorted order
calculate_vote_results_last(vs) ==
    LET counts == vote_counts(vs)
        c == convict(counts, 1, None, 0)
        winners == {t \in Names : c.max_votes > 0 /\ counts[t] = c.max_votes}
    IN [computed |-> TRUE, vote_counts |-> counts,
        convicted |-> IF winners = {} THEN None
                      ELSE CHOOSE t \in winners :
                              \A u \in winners : NamePos(u) <= NamePos(t),
        max_votes |-> c.max_votes,
        total_votes |-> Cardinality({v \in DOMAIN vs : vs[v].target # None}),
        abstentions |-> Cardinality({v \in DOMAIN vs : vs[v].abstained})]

calculate_vote_results(vs) ==
    LET counts == vote_counts(vs)
        c == convict(counts, 1, None, 0)
    IN [computed |-> TRUE, vote_counts |-> counts, convicted |-> c.convicted,
        max_votes |-> c.max_votes,
        total_votes |-> Cardinality({v \in DOMAIN vs : vs[v].target # None}),
        abstentions |-> Cardinality({v \in DOMAIN vs : vs[v].abstained})]

\* get_state in REVEAL computes the tally when it is still empty
get_state_results(ph, vs, res) ==
    IF ph = "REVEAL" /\ ~res.computed THEN calculate_vote_results(vs) ELSE res

\* _handle_vote up to its broadcast: record_vote
HandleVote(name, target, confidence) ==
    /\ name \in ws_open
    /\ name \notin suspended
    /\ Cardinality(suspended) < MaxSuspended
    /\ current_round > 1 => late_votes < MaxLateVotes
    /\ IF record_vote_error(name, target) # None
       THEN phase = "VOTE" /\ UNCHANGED vars
       ELSE /\ votes' = PutVote(votes, name, recorded_vote(target, confidence))
            /\ timers' = IF all_votes_submitted(votes')
                         THEN cancel_timer(timers, "vote") ELSE timers
            /\ suspended' = suspended \cup {name}
            /\ late_votes' = IF current_round > 1 THEN late_votes + 1
                             ELSE late_votes
            /\ UNCHANGED <<phase, previous_phase, players, host_id, config,
                           current_round, game_started, player_count,
                           loaded_packs, ws_open, disconnects, spy_guess, spy_action_taken,
                           convicted_player, vote_results, round_scores,
                           spy_caught, vote_caller, score_before,
                           conviction_calls, transition_result>>
            /\ UNCHANGED <<roleVars, turnVars, sessVars>>

\* _handle_vote returning after its broadcast without _trigger_reveal
VoteBroadcastDoneOnly(name) ==
    /\ name \in suspended
    /\ suspended' = suspended \ {name}
    /\ UNCHANGED <<phase, previous_phase, players, host_id, timers, config,
                   current_round, game_started, player_count, loaded_packs,
                   ws_open, disconnects, votes, spy_guess, spy_action_taken,
                   convicted_player, vote_results, round_scores, spy_caught,
                   vote_caller>>
    /\ UNCHANGED <<roleVars, turnVars, sessVars, histVars>>

\* _handle_vote after its broadcast: _trigger_reveal when every connected
\* player has voted, followed by the broadcast of the revealed state
VoteBroadcastDone(name) ==
    /\ name \in suspended
    /\ suspended' = suspended \ {name}
    /\ phase' = IF all_votes_submitted(votes) /\ phase = "VOTE"
                THEN "REVEAL" ELSE phase
    /\ vote_results' = IF all_votes_submitted(votes) /\ phase = "VOTE"
                       THEN get_state_results(phase', votes, vote_results)
                       ELSE vote_results
    /\ convicted_player' = IF all_votes_submitted(votes) /\ phase = "VOTE"
                           THEN vote_results'.convicted ELSE convicted_player
    /\ UNCHANGED <<previous_phase, players, host_id, timers, config,
                   current_round, game_started, player_count, loaded_packs, ws_open, disconnects,
                   votes, spy_guess, spy_action_taken, round_scores,
                   spy_caught, vote_caller>>
    /\ UNCHANGED <<roleVars, turnVars, sessVars, histVars>>

\* _get_location_list: the import it needs (content.get_location_pack) does
\* not exist, the exception is swallowed and the list is empty
state_get_location_list == <<>>

\* record_spy_guess checking only the phase and the sender
record_spy_guess_error_lax(player_name, location_id) ==
    IF phase # "VOTE" THEN ERR_INVALID_PHASE
    ELSE IF player_name # spy_name THEN ERR_NOT_SPY
    ELSE None

\* the error record_spy_guess returns, None when it accepts
record_spy_guess_error(player_name, location_id) ==
    IF phase # "VOTE" THEN ERR_INVALID_PHASE
    ELSE IF player_name # spy_name THEN ERR_NOT_SPY
    ELSE IF spy_action_taken THEN ERR_SPY_ALREADY_ACTED
    ELSE IF player_name \in DOMAIN votes THEN ERR_SPY_ALREADY_ACTED
    ELSE IF location_id \notin {l.id : l \in Range(state_get_location_list)}
    THEN ERR_INVALID_LOCATION
    ELSE None

\* _handle_spy_guess: record_spy_guess, then straight to REVEAL and broadcast
HandleSpyGuess(name, location_id) ==
    /\ name \in ws_open
    /\ name \notin suspended
    /\ IF record_spy_guess_error(name, location_id) # None
       THEN phase = "VOTE" /\ name = spy_name /\ UNCHANGED vars
       ELSE /\ spy_guess' = << [location_id |-> location_id,
                                correct |-> location_id = current_location] >>
            /\ spy_action_taken' = TRUE
            /\ timers' = cancel_timer(timers, "vote")
            /\ phase' = "REVEAL"
            /\ vote_results' = get_state_results(phase', votes, vote_results)
            /\ convicted_player' = vote_results'.convicted
            /\ UNCHANGED <<previous_phase, players, host_id, config,
                           current_round, game_started, player_count,
                           loaded_packs, ws_open, disconnects, suspended, votes, round_scores,
                           spy_caught, vote_caller>>
            /\ UNCHANGED <<roleVars, turnVars, sessVars, histVars>>

\* the abstention _on_vote_timeout stores for a silent player
Abstention == [target |-> None, confidence |-> 0, abstained |-> TRUE]

\* _on_vote_timeout storing an abstention for every connected player,
\* voters included
OnVoteTimeoutOverwrite ==
    /\ timers["vote"] = "pending"
    /\ votes' = [n \in (DOMAIN votes) \cup ConnectedPlayers |->
                   IF n \in ConnectedPlayers THEN Abstention ELSE votes[n]]
    /\ timers' = timer_done(cancel_timer(timers, "vote"), "vote")
    /\ phase' = "REVEAL"
    /\ UNCHANGED <<previous_phase, players, host_id, config, current_round,
                   game_started, player_count, loaded_packs, ws_open,
                   disconnects, suspended, spy_guess, spy_action_taken,
                   convicted_player, vote_results, round_scores, spy_caught,
                   vote_caller>>
    /\ UNCHANGED <<roleVars, turnVars, sessVars, histVars>>

\* _on_vote_timeout, run by the vote timer
OnVoteTimeout ==
    /\ timers["vote"] = "pending"
    /\ votes' = [n \in (DOMAIN votes) \cup
                       {p \in ConnectedPlayers :
                           ~(spy_guess # <<>> /\ p = spy_name)} |->
                   IF n \in DOMAIN votes THEN votes[n] ELSE Abstention]
    /\ timers' = timer_done(cancel_timer(timers, "vote"), "vote")
    /\ phase' = "REVEAL"
    /\ UNCHANGED <<previous_phase, players, host_id, config, current_round,
                   game_started, player_count, loaded_packs, ws_open, disconnects, suspended,
                   spy_guess, spy_action_taken, convicted_player, vote_results,
                   round_scores, spy_caught, vote_caller>>
    /\ UNCHANGED <<roleVars, turnVars, sessVars, histVars>>

\* any broadcast while the phase is REVEAL: get_state fills the tally
BroadcastState ==
    /\ phase = "REVEAL"
    /\ ~vote_results.computed
    /\ vote_results' = get_state_results(phase, votes, vote_results)
    /\ convicted_player' = vote_results'.convicted
    /\ UNCHANGED <<phase, previous_phase, players, host_id, timers, config,
                   current_round, game_started, player_count, loaded_packs, ws_open, disconnects,
                   suspended, votes, spy_guess, spy_action_taken,
                   round_scores, spy_caught, vote_caller>>
    /\ UNCHANGED <<roleVars, turnVars, sessVars, histVars>>

(***************************************************************************)
(* Scoring: game/scoring.py                                                *)
(***************************************************************************)
POINTS_CORRECT_VOTE == (1 :> 2) @@ (2 :> 4) @@ (3 :> 6)
POINTS_INCORRECT_VOTE == (1 :> -1) @@ (2 :> -2) @@ (3 :> -3)

Min(a, b) == IF a < b THEN a ELSE b
Max(a, b) == IF a > b THEN a ELSE b

\* calculate_vote_score taking one point for any wrong vote
calculate_vote_score_flat(voted_for, actual_spy, confidence) ==
    IF voted_for = None THEN [points |-> 0, outcome |-> "abstained"]
    ELSE IF voted_for = actual_spy
    THEN [points |-> POINTS_CORRECT_VOTE[Min(Max(confidence, 1), 3)],
          outcome |-> "correct"]
    ELSE [points |-> POINTS_INCORRECT_VOTE[1], outcome |-> "incorrect"]

calculate_vote_score(voted_for, actual_spy, confidence) ==
    IF voted_for = None THEN [points |-> 0, outcome |-> "abstained"]
    ELSE IF voted_for = actual_spy
    THEN [points |-> POINTS_CORRECT_VOTE[Min(Max(confidence, 1), 3)],
          outcome |-> "correct"]
    ELSE [points |-> POINTS_INCORRECT_VOTE[Min(Max(confidence, 1), 3)],
          outcome |-> "incorrect"]

\* calculate_double_agent_bonus without the check of the confidence
calculate_double_agent_bonus_any(spy_vote_target, convicted, spy_confidence, spy) ==
    IF spy_vote_target = None THEN 0
    ELSE IF spy_vote_target = spy THEN 0
    ELSE IF spy_vote_target # convicted THEN 0
    ELSE POINTS_DOUBLE_AGENT_BONUS

calculate_double_agent_bonus(spy_vote_target, convicted, spy_confidence, spy) ==
    IF spy_vote_target = None THEN 0
    ELSE IF spy_confidence # 3 THEN 0
    ELSE IF spy_vote_target = spy THEN 0
    ELSE IF spy_vote_target # convicted THEN 0
    ELSE POINTS_DOUBLE_AGENT_BONUS

\* calculate_spy_guess_scores scoring the votes of the other players
calculate_spy_guess_scores_votes(pl, vs, guess, spy) ==
    [n \in DOMAIN pl |->
        IF n = spy
        THEN IF guess[1].correct
             THEN [points |-> POINTS_SPY_GUESS_CORRECT,
                   outcome |-> "spy_guess_correct"]
             ELSE [points |-> POINTS_SPY_GUESS_WRONG,
                   outcome |-> "spy_guess_wrong"]
        ELSE IF n \in DOMAIN vs /\ vs[n].abstained
        THEN [points |-> 0, outcome |-> "abstained"]
        ELSE IF n \in DOMAIN vs
        THEN calculate_vote_score(vs[n].target, spy, vs[n].confidence)
        ELSE [points |-> 0, outcome |-> "spy_guessed"]]

calculate_spy_guess_scores(pl, vs, guess, spy) ==
    [n \in DOMAIN pl |->
        IF n = spy
        THEN IF guess[1].correct
             THEN [points |-> POINTS_SPY_GUESS_CORRECT,
                   outcome |-> "spy_guess_correct"]
             ELSE [points |-> POINTS_SPY_GUESS_WRONG,
                   outcome |-> "spy_guess_wrong"]
        ELSE IF n \in DOMAIN vs /\ vs[n].abstained
        THEN [points |-> 0, outcome |-> "abstained"]
        ELSE [points |-> 0, outcome |-> "spy_guessed"]]

calculate_round_scores(pl, vs, guess, convicted, spy) ==
    IF guess # <<>> THEN calculate_spy_guess_scores(pl, vs, guess, spy)
    ELSE IF convicted = None
    THEN [n \in DOMAIN pl |-> [points |-> 0, outcome |-> "no_conviction"]]
    ELSE [n \in (DOMAIN vs) \cup (DOMAIN pl) |->
            IF n \notin DOMAIN vs THEN [points |-> 0, outcome |-> "no_vote"]
            ELSE IF vs[n].abstained THEN [points |-> 0, outcome |-> "abstained"]
            ELSE LET sc == calculate_vote_score(vs[n].target, spy,
                                                vs[n].confidence)
                     bonus == IF n = spy
                              THEN calculate_double_agent_bonus(
                                      vs[n].target, convicted,
                                      vs[n].confidence, spy)
                              ELSE 0
                 IN [points |-> sc.points + bonus, outcome |-> sc.outcome]]

\* PlayerSession.add_score for every player that has an entry in scores
add_scores(pl, scores) ==
    [n \in DOMAIN pl |->
        IF n \in DOMAIN scores
        THEN [pl[n] EXCEPT !.score = @ + scores[n].points]
        ELSE pl[n]]

(***************************************************************************)
(* REVEAL and SCORING                                                      *)
(***************************************************************************)
\* process_conviction in REVEAL: the fields it leaves
process_conviction ==
    LET res == IF vote_results.computed THEN vote_results
               ELSE calculate_vote_results(votes)
        conv == IF vote_results.computed THEN convicted_player
                ELSE res.convicted
        scores == calculate_round_scores(players, votes, spy_guess, conv,
                                         spy_name)
    IN [vote_results |-> res, convicted_player |-> conv,
        spy_caught |-> (conv = spy_name), round_scores |-> scores,
        players |-> add_scores(players, scores)]

\* process_conviction called on its own; GameState exposes it and nothing
\* in the server calls it
ProcessConviction ==
    /\ phase = "REVEAL"
    /\ conviction_calls < MaxConvictionCalls
    /\ LET r == process_conviction IN
       /\ vote_results' = r.vote_results
       /\ convicted_player' = r.convicted_player
       /\ spy_caught' = r.spy_caught
       /\ round_scores' = r.round_scores
       /\ players' = r.players
    /\ conviction_calls' = conviction_calls + 1
    /\ UNCHANGED <<phase, previous_phase, host_id, timers, config,
                   current_round, game_started, player_count, loaded_packs, ws_open, disconnects,
                   suspended, votes, spy_guess, spy_action_taken, vote_caller,
                   score_before, late_votes, transition_result>>
    /\ UNCHANGED <<roleVars, turnVars, sessVars>>

\* transition_to_scoring; GameState exposes it and nothing in the server
\* calls it
TransitionToScoring ==
    /\ phase = "REVEAL"
    /\ LET r == process_conviction IN
       /\ vote_results' = r.vote_results
       /\ convicted_player' = r.convicted_player
       /\ spy_caught' = r.spy_caught
       /\ round_scores' = r.round_scores
       /\ players' = r.players
    /\ phase' = "SCORING"
    /\ timers' = start_timer(timers, "scoring")
    /\ UNCHANGED <<previous_phase, host_id, config, current_round,
                   game_started, player_count, loaded_packs, ws_open, disconnects, suspended, votes,
                   spy_guess, spy_action_taken, vote_caller>>
    /\ UNCHANGED <<roleVars, turnVars, sessVars, histVars>>

\* should_end_game comparing with > instead of >=
should_end_game_late == current_round > config.num_rounds

should_end_game == current_round >= config.num_rounds

\* start_next_round with the draws of assign_roles given: the round fields
\* are cleared and every timer cancelled before roles are assigned
start_next_round(location, spy, draw) ==
    LET a == assign_roles(location, spy, draw) IN
    IF phase # "SCORING"
    THEN [ok |-> FALSE, err |-> ERR_INVALID_PHASE, reset |-> FALSE,
          phase |-> phase, current_round |-> current_round, roles |-> a,
          timers |-> timers]
    ELSE IF current_round >= config.num_rounds
    THEN [ok |-> FALSE, err |-> "GAME_ENDED", reset |-> FALSE,
          phase |-> phase, current_round |-> current_round, roles |-> a,
          timers |-> timers]
    ELSE IF a.status # "ok"
    THEN [ok |-> FALSE, err |-> "role_assignment_failed", reset |-> TRUE,
          phase |-> phase, current_round |-> current_round + 1, roles |-> a,
          timers |-> cancel_all_timers(timers)]
    ELSE [ok |-> TRUE, err |-> None, reset |-> TRUE, phase |-> "ROLES",
          current_round |-> current_round + 1, roles |-> a,
          timers |-> start_timer(cancel_all_timers(timers), "role_display")]

\* _on_scoring_timer_expired, run by the scoring timer
OnScoringTimerExpired(location, spy, draw) ==
    /\ timers["scoring"] = "pending"
    /\ should_end_game \/ current_round < MaxRound
    /\ IF should_end_game
       THEN /\ phase' = "END"
            /\ timers' = timer_done(timers, "scoring")
            /\ UNCHANGED <<current_round, players>>
            /\ UNCHANGED <<roundVars, roleVars, turnVars, sessVars, histVars>>
       ELSE LET r == start_next_round(location, spy, draw) IN
            /\ phase' = r.phase
            /\ current_round' = r.current_round
            /\ timers' = timer_done(r.timers, "scoring")
            /\ IF r.reset
               THEN /\ votes' = EmptyFn
                    /\ vote_results' = EmptyVoteResults
                    /\ convicted_player' = None
                    /\ spy_guess' = <<>>
                    /\ spy_action_taken' = FALSE
                    /\ round_scores' = EmptyFn
                    /\ spy_caught' = FALSE
                    /\ vote_caller' = None
                    /\ current_location' = r.roles.current_location
                    /\ spy_name' = r.roles.spy_name
                    /\ player_roles' = r.roles.player_roles
                    /\ score_before' = [n \in DOMAIN players |-> players[n].score]
                    /\ conviction_calls' = 0
                    /\ turn_order' = <<>>
                    /\ current_questioner_id' = None
                    /\ current_answerer_id' = None
                    /\ window_due' = [n \in Names |-> None]
                    /\ UNCHANGED <<late_votes, transition_result, sessions,
                                   issued, now, tasks>>
               ELSE UNCHANGED <<roundVars, roleVars, turnVars, sessVars, histVars>>
            /\ UNCHANGED players
    /\ UNCHANGED <<previous_phase, host_id, config, game_started,
                   player_count, loaded_packs, ws_open, disconnects, suspended>>

(***************************************************************************)
(* The per-viewer snapshot: GameState.get_state, roles.get_player_role_data *)
(* A snapshot is a function from its keys to their values.  Clock readings *)
(* (remaining seconds, created_at) and the session token are left out of   *)
(* the values; list values whose order is the join order are given as sets.*)
(***************************************************************************)
\* content.get_location_list
get_location_list(pack_id) ==
    IF pack_id \notin loaded_packs THEN <<>>
    ELSE [i \in DOMAIN PackLocations(pack_id) |->
            [id |-> PackLocations(pack_id)[i].id,
             name |-> PackLocations(pack_id)[i].name]]

\* get_player_role_data without its spy branch
get_player_role_data_unfiltered(player_name) ==
    LET role == IF player_name \in DOMAIN player_roles
                THEN player_roles[player_name] ELSE "Visitor"
    IN ("is_spy" :> (player_name = spy_name)) @@
       ("location" :> LocationById(current_location).name) @@
       ("role" :> role) @@
       ("hint" :> <<"hint", role>>) @@
       ("other_roles" :>
           {r \in Range(LocationById(current_location).roles) : r # role})

\* get_player_role_data; called only when a location is assigned
get_player_role_data(player_name) ==
    IF player_name = spy_name
    THEN ("is_spy" :> TRUE) @@
         ("possible_locations" :> get_location_list(config.location_pack))
    ELSE LET role == IF player_name \in DOMAIN player_roles
                     THEN player_roles[player_name] ELSE "Visitor"
         IN ("is_spy" :> FALSE) @@
            ("location" :> LocationById(current_location).name) @@
            ("role" :> role) @@
            ("hint" :> <<"hint", role>>) @@
            ("other_roles" :>
                {r \in Range(LocationById(current_location).roles) : r # role})

\* whether get_state obtains role data for the viewer
HasRoleData(for_player) ==
    /\ for_player # None
    /\ for_player \in DOMAIN players
    /\ current_location # None

\* the common fields with the spy's name among them
StateBase_with_spy ==
    ("session_id" :> "session") @@ ("phase" :> phase) @@
    ("player_count" :> player_count) @@ ("current_round" :> current_round) @@
    ("round_count" :> DEFAULT_ROUND_COUNT) @@ ("created_at" :> "created") @@
    ("actual_spy" :> spy_name) @@
    (IF timers["round"] = "pending" THEN ("timer" :> "round")
     ELSE IF timers["vote"] = "pending" THEN ("timer" :> "vote")
     ELSE EmptyFn)

StateBase ==
    ("session_id" :> "session") @@ ("phase" :> phase) @@
    ("player_count" :> player_count) @@ ("current_round" :> current_round) @@
    ("round_count" :> DEFAULT_ROUND_COUNT) @@ ("created_at" :> "created") @@
    (IF timers["round"] = "pending" THEN ("timer" :> "round")
     ELSE IF timers["vote"] = "pending" THEN ("timer" :> "vote")
     ELSE EmptyFn)

Standings(for_player, with_change) ==
    {[name |-> n, score |-> players[n].score,
      round_change |-> IF with_change /\ n \in DOMAIN round_scores
                       THEN round_scores[n].points ELSE 0,
      is_self |-> (n = for_player)] : n \in DOMAIN players}

determine_winner ==
    IF DOMAIN players = {} THEN [name |-> None, score |-> 0, is_tie |-> FALSE,
                                 tied_players |-> {}]
    ELSE LET top == CHOOSE n \in DOMAIN players :
                       \A m \in DOMAIN players : players[m].score <= players[n].score
             winners == {n \in DOMAIN players : players[n].score = players[top].score}
         IN IF Cardinality(winners) = 1
            THEN [name |-> top, score |-> players[top].score, is_tie |-> FALSE,
                  tied_players |-> {}]
            ELSE [name |-> None, score |-> players[top].score, is_tie |-> TRUE,
                  tied_players |-> winners]

get_state(for_player) ==
    CASE phase = "LOBBY" ->
            StateBase @@ ("waiting_for_players" :> TRUE) @@
            ("min_players" :> MIN_PLAYERS) @@ ("max_players" :> MAX_PLAYERS) @@
            ("connected_count" :> Cardinality(ConnectedPlayers)) @@
            ("can_start" :> (can_start_game = None)) @@ ("config" :> config) @@
            ("players" :> {[name |-> n, connected |-> players[n].connected,
                            is_host |-> players[n].is_host] : n \in DOMAIN players})
      [] phase \in {"ROLES", "QUESTIONING"} ->
            StateBase @@
            (IF HasRoleData(for_player)
             THEN ("role_data" :> get_player_role_data(for_player))
             ELSE EmptyFn)
      [] phase = "VOTE" ->
            (IF for_player # None /\ for_player = spy_name
             THEN ("is_spy" :> TRUE) @@
                  ("can_guess_location" :> ~spy_action_taken) @@
                  ("location_list" :> state_get_location_list)
             ELSE IF for_player # None THEN ("is_spy" :> FALSE)
             ELSE EmptyFn) @@
            (IF for_player # None
             THEN ("has_voted" :> (for_player \in DOMAIN votes)) ELSE EmptyFn) @@
            ("players" :> {[name |-> n, connected |-> players[n].connected] :
                             n \in DOMAIN players}) @@
            ("votes_submitted" :> Cardinality(DOMAIN votes)) @@
            ("total_voters" :> Cardinality(DOMAIN players)) @@
            ("vote_caller" :> vote_caller) @@
            ("spy_has_guessed" :> (spy_guess # <<>>)) @@
            (IF HasRoleData(for_player) THEN get_player_role_data(for_player)
             ELSE EmptyFn) @@
            StateBase
      [] phase = "REVEAL" ->
            StateBase @@
            ("votes" :> {[voter |-> v, target |-> votes[v].target,
                          confidence |-> votes[v].confidence,
                          abstained |-> votes[v].abstained] : v \in DOMAIN votes}) @@
            ("vote_results" :> get_state_results(phase, votes, vote_results)) @@
            ("convicted" :> get_state_results(phase, votes, vote_results).convicted) @@
            ("actual_spy" :> spy_name) @@
            ("location" :>
                IF current_location # None
                THEN [id |-> current_location,
                      name |-> LocationById(current_location).name]
                ELSE [id |-> None, name |-> "Unknown"]) @@
            ("spy_guess" :>
                IF spy_guess # <<>>
                THEN [guessed |-> TRUE, location_id |-> spy_guess[1].location_id,
                      correct |-> spy_guess[1].correct]
                ELSE [guessed |-> FALSE, location_id |-> None, correct |-> FALSE]) @@
            ("spy_caught" :> spy_caught) @@ ("round_scores" :> round_scores)
      [] phase = "SCORING" ->
            StateBase @@
            ("spy_caught" :> spy_caught) @@ ("convicted" :> convicted_player) @@
            ("actual_spy" :> spy_name) @@ ("round_scores" :> round_scores) @@
            ("scores" :> [n \in DOMAIN players |-> players[n].score]) @@
            ("standings" :> Standings(for_player, TRUE)) @@
            ("round_number" :> current_round) @@
            ("total_rounds" :> config.num_rounds) @@
            (IF timers["scoring"] = "pending"
             THEN ("scoring_timer" :> "scoring") ELSE EmptyFn)
      [] phase = "END" ->
            StateBase @@
            ("round_number" :> current_round) @@
            ("total_rounds" :> config.num_rounds) @@
            ("winner" :> determine_winner) @@
            ("standings" :> Standings(for_player, FALSE)) @@
            ("final_standings" :> Standings(for_player, FALSE)) @@
            ("game_stats" :> [total_rounds |-> current_round])
      [] OTHER -> StateBase

\* the viewers get_state is asked for: every client name and the public view
Viewers == Names \cup {None}

(***************************************************************************)
(* Connections: a socket closes, the grace timer, a client comes back      *)
(***************************************************************************)
\* the cleanup of handle_connection when a player's socket closes:
\* _on_disconnect starts the player's disconnect-grace timer
SocketClosed(name) ==
    /\ name \in ws_open
    /\ name \notin suspended
    /\ disconnects < MaxDisconnects
    /\ ws_open' = ws_open \ {name}
    /\ disconnects' = disconnects + 1
    /\ timers' = start_timer(timers, GraceTimer(name))
    /\ UNCHANGED <<phase, previous_phase, players, host_id, config,
                   current_round, game_started, player_count, loaded_packs,
                   suspended, score_before, conviction_calls, late_votes,
                   transition_result>>
    /\ UNCHANGED <<roundVars, roleVars, turnVars, sessVars>>

\* _on_player_disconnect: it acts only on a player already marked as
\* disconnected, and PlayerSession.disconnect is what would mark it
on_player_disconnect(pl, tm, name) ==
    IF name \in DOMAIN pl /\ ~pl[name].connected
    THEN start_timer(tm, ReconnectTimer(name))
    ELSE tm

\* the instant the reconnect-window timer started by _on_player_disconnect
\* is due: start_timer sleeps RECONNECT_WINDOW_SECONDS from now
on_player_disconnect_due(pl, due, name) ==
    IF name \in DOMAIN pl /\ ~pl[name].connected
    THEN [due EXCEPT ![name] = now + RECONNECT_WINDOW_SECONDS]
    ELSE due

\* _disconnect_grace_completion, run by a disconnect-grace timer; it ends
\* with a broadcast
OnDisconnectGraceExpired(name) ==
    /\ timers[GraceTimer(name)] = "pending"
    /\ timers' = timer_done(on_player_disconnect(players, timers, name),
                            GraceTimer(name))
    /\ window_due' = on_player_disconnect_due(players, window_due, name)
    /\ vote_results' = IF ws_open # {}
                       THEN get_state_results(phase, votes, vote_results)
                       ELSE vote_results
    /\ convicted_player' = IF vote_results'.computed
                           THEN vote_results'.convicted ELSE convicted_player
    /\ UNCHANGED <<phase, previous_phase, players, host_id, config,
                   current_round, game_started, player_count, loaded_packs,
                   ws_open, disconnects, suspended, votes, spy_guess,
                   spy_action_taken, round_scores, spy_caught, vote_caller>>
    /\ UNCHANGED <<roleVars, turnVars, histVars, sessions, issued, now, tasks>>

\* PlayerSession.is_session_valid
is_session_valid(p) ==
    \/ p.disconnected_at = <<>>
    \/ now - p.disconnected_at[1] < RECONNECT_WINDOW_SECONDS

\* PlayerSession.get_disconnect_duration: <<>> for the None of a connected
\* player, <<d>> for d seconds
get_disconnect_duration(p) ==
    IF p.connected \/ p.disconnected_at = <<>> THEN <<>>
    ELSE <<now - p.disconnected_at[1]>>

\* PlayerSession.disconnect: the first call stamps the time, later calls
\* change nothing
disconnect(p) ==
    IF p.connected
    THEN [p EXCEPT !.connected = FALSE, !.disconnected_at = <<now, tasks>>]
    ELSE p

\* PlayerSession.reconnect
reconnect(p) == [p EXCEPT !.connected = TRUE, !.disconnected_at = <<>>]

\* the session a token of self.sessions stands for is the one self.players
\* holds under the session's name
Registered(token) ==
    /\ token \in DOMAIN sessions
    /\ sessions[token].name \in DOMAIN players
    /\ players[sessions[token].name].session_token = token

remove_key(f, k) == [x \in (DOMAIN f) \ {k} |-> f[x]]

\* GameState.restore_session: an unknown token is refused, an expired
\* session is dropped from both registries, a valid one is reconnected and
\* its disconnect-grace timer cancelled
restore_session(token) ==
    IF token \notin DOMAIN sessions
    THEN [err |-> ERR_INVALID_TOKEN, players |-> players,
          sessions |-> sessions, timers |-> timers]
    ELSE LET name == sessions[token].name
         IN IF Registered(token) /\ ~is_session_valid(players[name])
            THEN [err |-> ERR_SESSION_EXPIRED,
                  players |-> remove_key(players, name),
                  sessions |-> remove_key(sessions, token),
                  timers |-> timers]
            ELSE [err |-> None,
                  players |-> IF Registered(token)
                              THEN [players EXCEPT ![name] = reconnect(@)]
                              ELSE players,
                  sessions |-> sessions,
                  timers |-> cancel_timer(timers, GraceTimer(name))]

\* handle_connection opened with a token: on success the restored client is
\* sent its state and a broadcast follows, on failure the socket is closed
\* after the error
HandleRestore(token) ==
    LET r == restore_session(token)
    IN /\ players' = r.players
       /\ sessions' = r.sessions
       /\ timers' = r.timers
       /\ player_count' = IF r.err = ERR_SESSION_EXPIRED
                          THEN Cardinality(DOMAIN r.players)
                          ELSE player_count
       /\ ws_open' = IF r.err = None /\ Registered(token)
                     THEN ws_open \cup {sessions[token].name}
                     ELSE ws_open
       /\ vote_results' = IF r.err = None
                          THEN get_state_results(phase, votes, vote_results)
                          ELSE vote_results
       /\ convicted_player' = IF vote_results'.computed
                              THEN vote_results'.convicted
                              ELSE convicted_player
       /\ UNCHANGED <<phase, previous_phase, host_id, config, current_round,
                      game_started, loaded_packs, disconnects, suspended,
                      votes, spy_guess, spy_action_taken, round_scores,
                      spy_caught, vote_caller>>
       /\ UNCHANGED <<roleVars, turnVars, histVars, issued, now, window_due, tasks>>

\* a registered player whose socket closed comes back with its token
HandleReconnect(name) ==
    /\ name \in DOMAIN players
    /\ name \notin ws_open
    /\ HandleRestore(players[name].session_token)

\* _handle_heartbeat from the open socket of a registered session: a
\* running grace timer is cancelled and a player marked disconnected is
\* marked connected again, a broadcast following
heartbeat(p) == [p EXCEPT !.connected = TRUE]

HandleHeartbeat(name) ==
    /\ name \in ws_open
    /\ name \in DOMAIN players
    /\ timers' = cancel_timer(timers, GraceTimer(name))
    /\ players' = [players EXCEPT ![name] = heartbeat(@)]
    /\ vote_results' = IF ~players[name].connected
                       THEN get_state_results(phase, votes, vote_results)
                       ELSE vote_results
    /\ convicted_player' = IF vote_results'.computed
                           THEN vote_results'.convicted ELSE convicted_player
    /\ UNCHANGED <<phase, previous_phase, host_id, config, current_round,
                   game_started, player_count, loaded_packs, ws_open,
                   disconnects, suspended, votes, spy_guess, spy_action_taken,
                   round_scores, spy_caught, vote_caller>>
    /\ UNCHANGED <<roleVars, turnVars, histVars, sessVars>>

\* PlayerSession.disconnect called on a registered player
Disconnect(name) ==
    /\ name \in DOMAIN players
    /\ players[name].connected
    /\ players' = [players EXCEPT ![name] = disconnect(@)]
    /\ UNCHANGED <<phase, previous_phase, host_id, timers, config,
                   current_round, game_started, player_count, loaded_packs,
                   ws_open, disconnects, suspended>>
    /\ UNCHANGED <<roundVars, roleVars, turnVars, histVars, sessVars>>

on_reconnect_window_expired_offline(name) ==
    IF name \notin DOMAIN players \/ players[name].connected
    THEN [players |-> players, sessions |-> sessions, timers |-> timers]
    ELSE [players |-> remove_key(players, name),
          sessions |-> remove_key(sessions, players[name].session_token),
          timers |-> cancel_timer(timers, GraceTimer(name))]

\* _on_reconnect_window_expired: the player, whatever its connected flag,
\* leaves both registries
on_reconnect_window_expired(name) ==
    IF name \notin DOMAIN players
    THEN [players |-> players, sessions |-> sessions, timers |-> timers]
    ELSE [players |-> remove_key(players, name),
          sessions |-> remove_key(sessions, players[name].session_token),
          timers |-> cancel_timer(timers, GraceTimer(name))]

\* _timer_task of a reconnect_window timer whose sleep is over
OnReconnectWindowExpired(name) ==
    /\ timers[ReconnectTimer(name)] = "pending"
    /\ now >= window_due[name]
    /\ LET r == on_reconnect_window_expired(name) IN
       /\ players' = r.players
       /\ sessions' = r.sessions
       /\ timers' = timer_done(r.timers, ReconnectTimer(name))
    /\ player_count' = IF name \in DOMAIN players
                       THEN Cardinality(DOMAIN players') ELSE player_count
    /\ window_due' = [window_due EXCEPT ![name] = None]
    /\ UNCHANGED <<phase, previous_phase, host_id, config, current_round,
                   game_started, loaded_packs, ws_open, disconnects,
                   suspended, issued, now, tasks>>
    /\ UNCHANGED <<roundVars, roleVars, turnVars, histVars>>

\* time passes while some player is marked disconnected or awaited, and
\* does not stop before a pending reconnect_window timer is due; the timer
\* fires when it is due, not later
Tick ==
    /\ \/ now < MaxNow
       \/ \E n \in Names : timers[ReconnectTimer(n)] = "pending"
    /\ \E n \in Names :
          \/ timers[ReconnectTimer(n)] = "pending"
          \/ n \in DOMAIN players /\ players[n].disconnected_at # <<>>
    /\ \A n \in Names :
          timers[ReconnectTimer(n)] = "pending" => now < window_due[n]
    /\ now' = now + TickSeconds
    /\ UNCHANGED <<phase, previous_phase, players, host_id, timers, config,
                   current_round, game_started, player_count, loaded_packs,
                   ws_open, disconnects, suspended, sessions, issued,
                   window_due, tasks>>
    /\ UNCHANGED <<roundVars, roleVars, turnVars, histVars>>

remove_player_at_once(player_name, requester_name) ==
    LET refuse(e) == [err |-> e, players |-> players,
                      sessions |-> sessions, timers |-> timers]
    IN IF phase # "LOBBY" THEN refuse(ERR_INVALID_PHASE)
       ELSE IF requester_name \notin DOMAIN players
       THEN refuse(ERR_PLAYER_NOT_FOUND)
       ELSE IF ~players[requester_name].is_host THEN refuse(ERR_NOT_HOST)
       ELSE IF requester_name = player_name
       THEN refuse(ERR_CANNOT_REMOVE_CONNECTED)
       ELSE IF player_name \notin DOMAIN players
       THEN refuse(ERR_PLAYER_NOT_FOUND)
       ELSE IF players[player_name].connected
       THEN refuse(ERR_CANNOT_REMOVE_CONNECTED)
       ELSE [err |-> None,
             players |-> remove_key(players, player_name),
             sessions |-> remove_key(sessions,
                                     players[player_name].session_token),
             timers |-> cancel_timer(
                           cancel_timer(timers, GraceTimer(player_name)),
                           ReconnectTimer(player_name))]

\* GameState.remove_player(player_name, requester_name)
remove_player(player_name, requester_name) ==
    LET refuse(e) == [err |-> e, players |-> players,
                      sessions |-> sessions, timers |-> timers]
    IN IF phase # "LOBBY" THEN refuse(ERR_INVALID_PHASE)
       ELSE IF requester_name \notin DOMAIN players
       THEN refuse(ERR_PLAYER_NOT_FOUND)
       ELSE IF ~players[requester_name].is_host THEN refuse(ERR_NOT_HOST)
       ELSE IF requester_name = player_name
       THEN refuse(ERR_CANNOT_REMOVE_CONNECTED)
       ELSE IF player_name \notin DOMAIN players
       THEN refuse(ERR_PLAYER_NOT_FOUND)
       ELSE IF players[player_name].connected
       THEN refuse(ERR_CANNOT_REMOVE_CONNECTED)
       ELSE IF get_disconnect_duration(players[player_name]) = <<>>
       THEN refuse(ERR_CANNOT_REMOVE_CONNECTED)
       ELSE IF get_disconnect_duration(players[player_name])[1]
                  < MIN_DISCONNECT_DURATION_FOR_REMOVAL
       THEN refuse(ERR_CANNOT_REMOVE_CONNECTED)
       ELSE [err |-> None,
             players |-> remove_key(players, player_name),
             sessions |-> remove_key(sessions,
                                     players[player_name].session_token),
             timers |-> cancel_timer(
                           cancel_timer(timers, GraceTimer(player_name)),
                           ReconnectTimer(player_name))]

\* _handle_admin with action remove_player, then _handle_remove_player
admin_remove_player(name, player_name) ==
    IF AdminError(name) # None
    THEN [err |-> AdminError(name), players |-> players,
          sessions |-> sessions, timers |-> timers]
    ELSE remove_player(player_name, name)

HandleRemovePlayer(name, player_name) ==
    /\ name \in ws_open
    /\ LET r == admin_remove_player(name, player_name) IN
       /\ players' = r.players
       /\ sessions' = r.sessions
       /\ timers' = r.timers
       /\ player_count' = IF r.err = None
                          THEN Cardinality(DOMAIN r.players)
                          ELSE player_count
       /\ window_due' = IF r.err = None
                        THEN [window_due EXCEPT ![player_name] = None]
                        ELSE window_due
       /\ vote_results' = IF r.err = None
                          THEN get_state_results(phase, votes, vote_results)
                          ELSE vote_results
    /\ convicted_player' = IF vote_results'.computed
                           THEN vote_results'.convicted ELSE convicted_player
    /\ UNCHANGED <<phase, previous_phase, host_id, config, current_round,
                   game_started, loaded_packs, ws_open, disconnects,
                   suspended, votes, spy_guess, spy_action_taken,
                   round_scores, spy_caught, vote_caller, issued, now, tasks>>
    /\ UNCHANGED <<roleVars, turnVars, histVars>>

\* _handle_host_join_as_player: what the handler refuses
HostJoinError(conn, name) ==
    IF conn \notin DOMAIN players \/ ~players[conn].is_host
    THEN "Only the host can use this feature"
    ELSE IF phase # "LOBBY" THEN "Game has already started"
    ELSE IF name \in DOMAIN players /\ name # "HostDisplay"
    THEN "That name is already taken"
    ELSE IF Cardinality((DOMAIN players) \ {"HostDisplay"}) >= MAX_PLAYERS
    THEN "Game is full"
    ELSE None

\* the name registry after the host's session moved from its old name to
\* the chosen one
host_join_players(conn, name) ==
    [n \in ((DOMAIN players) \ {conn}) \cup {name} |->
        IF n = name THEN players[conn] ELSE players[n]]

\* the session object is renamed in place, so the token registry sees the
\* new name under the host's token
host_join_sessions(conn, name) ==
    LET token == players[conn].session_token
    IN IF token \in DOMAIN sessions
       THEN [sessions EXCEPT ![token].name = name]
       ELSE sessions

HandleHostJoinAsPlayer(conn, name) ==
    /\ conn \in ws_open
    /\ HostJoinError(conn, name) = None
    /\ players' = host_join_players(conn, name)
    /\ sessions' = host_join_sessions(conn, name)
    /\ host_id' = name
    /\ ws_open' = (ws_open \ {conn}) \cup {name}
    /\ UNCHANGED <<phase, previous_phase, timers, config, current_round,
                   game_started, player_count, loaded_packs, disconnects,
                   suspended, issued, now, window_due, tasks>>
    /\ UNCHANGED <<roundVars, roleVars, turnVars, histVars>>

\* GameState.advance_turn with the shuffle a restart would draw
advance_turn(order) ==
    IF Len(turn_order) < 2
    THEN [turn_order |-> turn_order,
          current_questioner_id |-> current_questioner_id,
          current_answerer_id |-> current_answerer_id]
    ELSE IF ~(\E i \in 1..Len(turn_order) :
                 turn_order[i] = current_questioner_id)
    THEN initialize_turn_order(order)
    ELSE LET current_idx == CHOOSE i \in 1..Len(turn_order) :
                               turn_order[i] = current_questioner_id
         IN [turn_order |-> turn_order,
             current_questioner_id |->
                turn_order[(current_idx % Len(turn_order)) + 1],
             current_answerer_id |->
                turn_order[((current_idx + 1) % Len(turn_order)) + 1]]

\* _handle_admin with action advance_turn, then _handle_advance_turn
HandleAdvanceTurn(name) ==
    /\ name \in ws_open
    /\ AdminError(name) = None
    /\ \E order \in TurnOrderDraws :
          LET t == advance_turn(order) IN
          /\ turn_order' = t.turn_order
          /\ current_questioner_id' = t.current_questioner_id
          /\ current_answerer_id' = t.current_answerer_id
    /\ vote_results' = get_state_results(phase, votes, vote_results)
    /\ convicted_player' = IF vote_results'.computed
                           THEN vote_results'.convicted ELSE convicted_player
    /\ UNCHANGED <<phase, previous_phase, players, host_id, timers, config,
                   current_round, game_started, player_count, loaded_packs,
                   ws_open, disconnects, suspended, votes, spy_guess,
                   spy_action_taken, round_scores, spy_caught, vote_caller>>
    /\ UNCHANGED <<roleVars, histVars, sessVars>>

(***************************************************************************)
(* The server as deployed: messages and timers                             *)
(***************************************************************************)
Lobby ==
    \/ \E name \in JoinNames, is_host \in BOOLEAN :
          /\ is_host => name \in HostNames
          /\ name \in DOMAIN players => name \in RejoinNames
          /\ HandleJoin(name, is_host)
    \/ \E name \in Names, c \in ConfigInputs : HandleConfigure(name, c[1], c[2])
    \/ \E name \in Names, location \in LocationDraws, spy \in SpyDraws :
          \E draw \in RoleDrawsOf(location, spy) :
             HandleStartGame(name, location, spy, draw)

Messages ==
    \/ \E name \in CallerNames : HandleCallVote(name)
    \/ \E name \in Names, target \in TargetInputs,
          confidence \in ConfidenceInputs :
          HandleVote(name, target, confidence)
    \/ \E name \in Names, location_id \in GuessInputs :
          HandleSpyGuess(name, location_id)

PhaseTimerSteps ==
    \/ OnRoleDisplayComplete
    \/ OnRoundTimerExpired
    \/ OnVoteTimeout

ScoringTimerStep ==
    \E location \in LocationDraws, spy \in SpyDraws :
       \E draw \in RoleDrawsOf(location, spy) :
          OnScoringTimerExpired(location, spy, draw)

Continuations == \E name \in Names : VoteBroadcastDone(name)

Connections ==
    \/ \E name \in Names : SocketClosed(name)
    \/ \E name \in Names : OnDisconnectGraceExpired(name)
    \/ \E name \in Names : HandleReconnect(name)

\* the operations of GameState that lead out of REVEAL: nothing in the
\* server calls them, the environment does
Orchestration ==
    \/ BroadcastState
    \/ ProcessConviction
    \/ TransitionToScoring

\* a game played over sockets that stay open, REVEAL being left through
\* the operations GameState offers
Next ==
    Lobby \/ Messages \/ PhaseTimerSteps \/ ScoringTimerStep \/ Continuations
          \/ Orchestration

Spec == Init /\ [][Next]_vars

\* the server on its own: messages, timers and connections.  A pending
\* timer fires, a coroutine waiting in a broadcast resumes; no message and
\* no call from outside is ever owed.
NextLive == Lobby \/ Messages \/ PhaseTimerSteps \/ Continuations \/ Connections

FairSpec ==
    /\ Init
    /\ [][NextLive]_vars
    /\ WF_vars(OnRoleDisplayComplete)
    /\ WF_vars(OnRoundTimerExpired)
    /\ WF_vars(OnVoteTimeout)
    /\ \A name \in Names : WF_vars(VoteBroadcastDone(name))
    /\ \A name \in Names : WF_vars(OnDisconnectGraceExpired(name))

\* GameState driven directly through transition_to
NextPhase ==
    \/ \E new_phase \in Phases : TransitionTo(new_phase)
    \/ \E name \in JoinNames, is_host \in BOOLEAN :
          /\ is_host => name \in HostNames
          /\ name \in DOMAIN players => name \in RejoinNames
          /\ HandleJoin(name, is_host)

SpecPhase == Init /\ [][NextPhase]_vars

(***************************************************************************)
(* The registries: sessions opened, replaced and renamed in the lobby      *)
(***************************************************************************)
\* the names sessions are opened under, those that may carry the host flag
\* and the one whose socket closes
SessionNames == {"HostDisplay", "alice", "bob"}
SessionHostNames == {"HostDisplay", "alice"}
SessionRejoinNames == {"HostDisplay", "alice"}
DisconnectNames == {"bob"}
TokenInputs == {<<n, k>> : n \in SessionNames, k \in 1..MaxTokens}
SessionConfigInputs == {<<"num_rounds", 1>>}
SessionPhases == {"ROLES"}

\* a client that holds a token opens a connection with it; a registered
\* session is restored once its socket closed
Restore(tokens) ==
    \E token \in tokens :
       /\ Registered(token) => sessions[token].name \notin ws_open
       /\ HandleRestore(token)

\* the messages of the lobby sent by clients of whom several may claim to
\* be the host, GameState.transition_to being called on the way
NextRegistry ==
    \/ \E name \in SessionNames, is_host \in BOOLEAN :
          /\ is_host => name \in SessionHostNames
          /\ name \in DOMAIN players => name \in SessionRejoinNames
          /\ HandleJoin(name, is_host)
    \/ \E conn \in SessionHostNames, name \in SessionHostNames :
          HandleHostJoinAsPlayer(conn, name)
    \/ Restore(TokenInputs)
    \/ \E name \in SessionNames, c \in SessionConfigInputs :
          HandleConfigure(name, c[1], c[2])
    \/ \E name \in SessionNames : HandleAdvanceTurn(name)
    \/ \E name \in SessionNames, player_name \in SessionNames :
          HandleRemovePlayer(name, player_name)
    \/ \E name \in DisconnectNames : SocketClosed(name)
    \/ \E name \in DisconnectNames : OnDisconnectGraceExpired(name)
    \/ \E new_phase \in SessionPhases : TransitionTo(new_phase)

SpecRegistry == Init /\ [][NextRegistry]_vars

(***************************************************************************)
(* Sessions in time: a player is marked disconnected while the clock runs  *)
(***************************************************************************)
\* the host display, the host and the player who drops out
TimedNames == {"HostDisplay", "alice", "bob"}

\* GameState and the handlers of connections, PlayerSession.disconnect and
\* transition_to being called as the clock advances
NextSession ==
    \/ \E name \in TimedNames :
          /\ name \notin DOMAIN players
          /\ HandleJoin(name, name \in SessionHostNames)
    \/ Restore({t \in TokenInputs : t[1] \in DisconnectNames})
    \/ \E name \in DisconnectNames : HandleHeartbeat(name)
    \/ \E name \in TimedNames, player_name \in TimedNames :
          HandleRemovePlayer(name, player_name)
    \/ \E name \in DisconnectNames : SocketClosed(name)
    \/ \E name \in DisconnectNames : OnDisconnectGraceExpired(name)
    \/ \E name \in DisconnectNames : OnReconnectWindowExpired(name)
    \/ \E name \in DisconnectNames : Disconnect(name)
    \/ Tick
    \/ \E new_phase \in SessionPhases : TransitionTo(new_phase)

SpecSession == Init /\ [][NextSession]_vars

(***************************************************************************)
(* A lobby that fills up                                                   *)
(***************************************************************************)
\* more clients than the game has room for send join, one of them joining
\* again under its name, and the game is started under them
NextLobby ==
    \/ \E name \in CrowdNames, is_host \in BOOLEAN :
          /\ is_host => name \in HostNames
          /\ name \in DOMAIN players => name \in RejoinNames
          /\ HandleJoin(name, is_host)
    \/ \E new_phase \in SessionPhases : TransitionTo(new_phase)

SpecLobby == Init /\ [][NextLobby]_vars

(***************************************************************************)
(* Eviction while the game goes on                                         *)
(***************************************************************************)
\* the phases transition_to is asked for on the way to REVEAL and to END
EvictionPhases == {"ROLES", "QUESTIONING", "VOTE", "REVEAL", "END"}

\* a player drops out and is marked disconnected while GameState is taken
\* through the phases of a round and the scoring timer runs
NextEviction ==
    \/ \E name \in HostNames \cup DisconnectNames :
          /\ name \notin DOMAIN players
          /\ HandleJoin(name, name \in HostNames)
    \/ Restore({t \in TokenInputs : t[1] \in DisconnectNames})
    \/ \E name \in DisconnectNames : SocketClosed(name)
    \/ \E name \in DisconnectNames : Disconnect(name)
    \/ \E name \in DisconnectNames : OnDisconnectGraceExpired(name)
    \/ \E name \in DisconnectNames : OnReconnectWindowExpired(name)
    \/ Tick
    \/ \E new_phase \in EvictionPhases : TransitionTo(new_phase)
    \/ TransitionToScoring
    \/ ScoringTimerStep

\* time passes and a timer whose sleep is over runs its callback; no
\* message and no call from outside is owed
FairEviction ==
    /\ Init
    /\ [][NextEviction]_vars
    /\ WF_vars(Tick)
    /\ \A name \in DisconnectNames :
          /\ WF_vars(OnDisconnectGraceExpired(name))
          /\ WF_vars(OnReconnectWindowExpired(name))
(***************************************************************************)
(* Scoring a round: process_conviction on the rounds REVEAL may hold        *)
(***************************************************************************)
\* confidence values of a stored vote
ScoreConfidences == {1, 2, 3}

\* what votes may hold for a player: an abstention or a vote record_vote
\* stored
VoteChoices(n) ==
    {Abstention} \cup {recorded_vote(t, c) :
                          t \in TargetInputs \ {n}, c \in ScoreConfidences}

\* the votes of a round: some players have no entry
RoundVotes ==
    UNION {{f \in [S -> UNION {VoteChoices(n) : n \in JoinNames}] :
               \A n \in S : f[n] \in VoteChoices(n)} : S \in SUBSET JoinNames}

\* spy_guess as record_spy_guess stores it, the location being "beach"
RoundGuesses ==
    {<<>>} \cup {<< [location_id |-> g, correct |-> g = "beach"] >> :
                    g \in {"beach", "bank"}}

\* four players in REVEAL with the votes and the guess of the round given
InitScoring ==
    /\ phase = "REVEAL"
    /\ previous_phase = None
    /\ issued = [n \in Names |-> IF n \in JoinNames THEN 1 ELSE 0]
    /\ players = [n \in JoinNames |->
                    [connected |-> TRUE, is_host |-> n \in HostNames,
                     score |-> 0, session_token |-> <<n, 1>>,
                     disconnected_at |-> <<>>]]
    /\ sessions = [t \in {<<n, 1>> : n \in JoinNames} |->
                      [name |-> t[1], is_host |-> t[1] \in HostNames]]
    /\ host_id = "alice"
    /\ timers = [t \in TimerNames |-> IF t = "role_display" THEN "done" ELSE "none"]
    /\ spy_name \in JoinNames
    /\ spy_guess \in RoundGuesses
    /\ votes \in RoundVotes
    /\ spy_guess # <<>> => spy_name \notin DOMAIN votes
    /\ spy_action_taken = (spy_guess # <<>>)
    /\ convicted_player = None
    /\ vote_results = EmptyVoteResults
    /\ round_scores = EmptyFn
    /\ spy_caught = FALSE
    /\ config = GameConfig
    /\ current_round = 1
    /\ game_started = TRUE
    /\ player_count = 4
    /\ current_location = "beach"
    /\ player_roles = [n \in JoinNames \ {spy_name} |-> "Lifeguard"]
    /\ vote_caller = "bob"
    /\ loaded_packs = {"classic", "custom"}
    /\ suspended = {}
    /\ score_before = [n \in JoinNames |-> 0]
    /\ conviction_calls = 0
    /\ late_votes = 0
    /\ ws_open = JoinNames
    /\ disconnects = 0
    /\ transition_result = [to |-> "ROLES", ok |-> TRUE, err |-> None]
    /\ turn_order = SelectSeq(NameOrder, LAMBDA n : n \in JoinNames)
    /\ current_questioner_id = "alice"
    /\ current_answerer_id = "bob"
    /\ now = 0
    /\ window_due = [n \in Names |-> None]
    /\ tasks = [t \in TimerNames |-> 0]

NextScoring ==
    \/ ProcessConviction
    \/ TransitionToScoring

SpecScoring == InitScoring /\ [][NextScoring]_vars

(***************************************************************************)
(* Properties                                                              *)
(***************************************************************************)
HidesFromSpy(st) ==
    /\ "location" \notin DOMAIN st
    /\ "role" \notin DOMAIN st
    /\ "role_data" \in DOMAIN st =>
          /\ "location" \notin DOMAIN st["role_data"]
          /\ "role" \notin DOMAIN st["role_data"]

HidesFromOthers(st) ==
    /\ "possible_locations" \notin DOMAIN st
    /\ "role_data" \in DOMAIN st =>
          "possible_locations" \notin DOMAIN st["role_data"]

IsSpy(viewer) == viewer # None /\ viewer = spy_name

C2_RejectedWithTransitionError ==
    [][\A new_phase \in Phases :
          (new_phase \notin VALID_TRANSITIONS[phase] /\ TransitionTo(new_phase))
          => /\ ~transition_result'.ok
             /\ transition_result'.err = ERR_INVALID_PHASE_TRANSITION
             /\ phase' = phase
             /\ previous_phase' = previous_phase]_vars

\* C2: a transition_to request the table does not list for the current
\* phase fails with ERR_INVALID_PHASE, the error every phase guard returns,
\* and leaves phase and previous_phase as they were.
C2_InvalidTransitionRejected ==
    [][\A new_phase \in Phases :
          (new_phase \notin VALID_TRANSITIONS[phase] /\ TransitionTo(new_phase))
          => /\ ~transition_result'.ok
             /\ transition_result'.err = ERR_INVALID_PHASE
             /\ phase' = phase
             /\ previous_phase' = previous_phase]_vars

\* a request for PAUSED was refused while the game was already paused
C2_Witness ==
    /\ phase = "PAUSED"
    /\ previous_phase # None
    /\ transition_result = [to |-> "PAUSED", ok |-> FALSE,
                            err |-> ERR_INVALID_PHASE]

\* C3 as stated: while PAUSED with remembered phase P, a transition request
\* out of PAUSED succeeds exactly when its target is P, and then the phase
\* is P and previous_phase is cleared.
C3_ResumeOnlyToRemembered ==
    [][\A new_phase \in Phases \ {"PAUSED"} :
          (phase = "PAUSED" /\ previous_phase # None /\ TransitionTo(new_phase))
          => /\ transition_result'.ok <=> (new_phase = previous_phase)
             /\ transition_result'.ok =>
                   (phase' = previous_phase /\ previous_phase' = None)]_vars

\* C4 as stated: when start_game returns the role-assignment failure the
\* phase is LOBBY again, current_round is 0 and the game is not started.
C4_StartFailureRollsBack ==
    [][\A name \in Names, location \in LocationDraws, spy \in SpyDraws :
          \A draw \in RoleDrawsOf(location, spy) :
             (/\ HandleStartGame(name, location, spy, draw)
              /\ start_game(location, spy, draw).err = ERR_ROLE_ASSIGNMENT_FAILED)
             => /\ phase' = "LOBBY"
                /\ current_round' = 0
                /\ ~game_started']_vars

\* C5: once the phase is VOTE it becomes REVEAL, with no message owed by
\* any player.
C5_VoteResolves == (phase = "VOTE") ~> (phase = "REVEAL")

\* the vote timer ended a vote in which a player stayed silent and a socket
\* had closed
C5_Witness ==
    /\ phase = "REVEAL"
    /\ disconnects > 0
    /\ \E n \in DOMAIN votes : votes[n].abstained
    /\ \E n \in DOMAIN votes : ~votes[n].abstained

\* C6 as stated: once the phase is REVEAL it becomes SCORING without any
\* player acting.
C6_RevealLeadsToScoring == (phase = "REVEAL") ~> (phase = "SCORING")

C8_RoundWithinRange ==
    /\ phase = "LOBBY" => current_round = 0
    /\ phase \in {"ROLES", "QUESTIONING", "VOTE", "REVEAL", "SCORING", "END"}
          => (1 <= current_round /\ current_round <= config.num_rounds)

\* C9 as stated: once a round is scored every player's cumulative score is
\* the score held when the round began plus the round's points for that
\* player, however often process_conviction and transition_to_scoring ran.
C9_ScoredOncePerRound ==
    phase \in {"SCORING", "END"} =>
        \A n \in DOMAIN players :
            players[n].score =
                score_before[n]
                + (IF n \in DOMAIN round_scores THEN round_scores[n].points
                   ELSE 0)

ConfiguredLocationIds ==
    IF config.location_pack \in loaded_packs
    THEN {l.id : l \in Range(PackLocations(config.location_pack))}
    ELSE {}

\* C11 as stated: during VOTE a guess by the spy, who has neither voted nor
\* guessed, for a location id of the configured pack is accepted by
\* record_spy_guess.
C11_ValidGuessAccepted ==
    \A location_id \in GuessInputs :
        (/\ phase = "VOTE"
         /\ spy_name \in DOMAIN players
         /\ ~spy_action_taken
         /\ spy_name \notin DOMAIN votes
         /\ location_id \in ConfiguredLocationIds)
        => record_spy_guess_error(spy_name, location_id) = None

\* voters and targets a vote may name: the players and a stranger
VoteParties == Names \cup {"zed"}

\* the five cases in which record_vote is to refuse
VoteRefusalCase(name, target) ==
    \/ phase # "VOTE"
    \/ name \notin DOMAIN players
    \/ ~players[name].connected
    \/ name \in DOMAIN votes
    \/ target \notin DOMAIN players
    \/ target = name

\* C12: record_vote returns an error whenever the phase is not VOTE, the
\* voter is not a registered connected player, the voter has a vote
\* recorded, the target is not registered or the target is the voter; and a
\* vote message in one of these cases leaves votes and timers unchanged.
C12_InvalidVoteRejected ==
    /\ [](\A name \in VoteParties, target \in VoteParties :
             VoteRefusalCase(name, target)
             => record_vote_error(name, target) # None)
    /\ [][\A name \in Names, target \in TargetInputs,
             confidence \in ConfidenceInputs :
             (VoteRefusalCase(name, target)
              /\ HandleVote(name, target, confidence))
             => (votes' = votes /\ timers' = timers)]_vars

\* bob has voted while the vote timer runs: a second vote by bob, a vote
\* by alice for herself and a vote for a stranger are all refused
C12_Witness ==
    /\ phase = "VOTE"
    /\ timers["vote"] = "pending"
    /\ "bob" \in DOMAIN votes
    /\ record_vote_error("bob", "alice") = ERR_ALREADY_VOTED
    /\ record_vote_error("alice", "alice") = ERR_INVALID_TARGET
    /\ record_vote_error("alice", "zed") = ERR_INVALID_TARGET
    /\ record_vote_error("zed", "alice") = "PLAYER_NOT_FOUND"

\* C13: when the vote timer expires every connected player without a
\* recorded vote is recorded as an abstention, the votes already recorded
\* stay as they are, nobody else gets an entry, and the phase is REVEAL.
C13_TimeoutRecordsAbstentions ==
    [][OnVoteTimeout =>
          /\ phase' = "REVEAL"
          /\ DOMAIN votes' = (DOMAIN votes) \cup ConnectedPlayers
          /\ \A n \in ConnectedPlayers \ DOMAIN votes :
                /\ votes'[n].abstained
                /\ votes'[n].target = None
          /\ \A n \in DOMAIN votes : votes'[n] = votes[n]]_vars

\* the vote timer has ended a vote in which bob had voted and carol had not
C13_Witness ==
    /\ phase = "REVEAL"
    /\ timers["vote"] # "pending"
    /\ DOMAIN votes = ConnectedPlayers
    /\ "bob" \in DOMAIN votes /\ ~votes["bob"].abstained
    /\ "carol" \in DOMAIN votes /\ votes["carol"].abstained

\* what a vote call leaves behind: no round timer, a vote timer, phase VOTE
VoteOpened(ph, tm) ==
    /\ ph = "VOTE"
    /\ tm["round"] # "pending"
    /\ tm["vote"] = "pending"

\* C14: in QUESTIONING the round timer's expiry and a call_vote by any
\* player cancel the round timer, start the vote timer and set the phase
\* to VOTE; in any other phase call_vote fails and changes neither the
\* phase nor a timer.
C14_CallVoteOpensVote ==
    /\ [](\A name \in Names :
             IF phase = "QUESTIONING"
             THEN /\ call_vote(name).ok
                  /\ VoteOpened(call_vote(name).phase, call_vote(name).timers)
             ELSE /\ ~call_vote(name).ok
                  /\ call_vote(name).err = ERR_INVALID_PHASE
                  /\ call_vote(name).phase = phase
                  /\ call_vote(name).timers = timers)
    /\ [][(phase = "QUESTIONING" /\ timers["round"] = "pending"
              /\ (OnRoundTimerExpired \/ \E name \in Names : HandleCallVote(name)))
             => VoteOpened(phase', timers')]_vars

\* bob has called the vote: the round timer is gone, the vote timer runs
\* and a second call, by alice, is refused
C14_Witness ==
    /\ phase = "VOTE"
    /\ vote_caller = "bob"
    /\ timers["round"] = "none"
    /\ timers["vote"] = "pending"
    /\ ~call_vote("alice").ok

\* the round timer has opened the vote
C14_TimerWitness ==
    /\ phase = "VOTE"
    /\ vote_caller = TIMER_CALLER
    /\ timers["vote"] = "pending"

\* C15 as stated: whenever the phase enters ROLES a role_display timer is
\* started, and when that timer expires in ROLES the turn order is set to
\* an order of the connected players, its first two players ask and
\* answer, the phase is QUESTIONING and a round timer runs.
C15_RolesAdvanceToQuestioning ==
    /\ [][(phase # "ROLES" /\ phase' = "ROLES")
             => timers'["role_display"] = "pending"]_vars
    /\ [][(phase = "ROLES" /\ OnRoleDisplayComplete)
             => /\ phase' = "QUESTIONING"
                /\ timers'["round"] = "pending"
                /\ Len(turn_order') = Cardinality(ConnectedPlayers)
                /\ Range(turn_order') = ConnectedPlayers
                /\ current_questioner_id' = turn_order'[1]
                /\ current_answerer_id' = turn_order'[2]]_vars

\* a step in which a round's roles were assigned and the round entered ROLES
RolesAssigned ==
    /\ phase # "ROLES"
    /\ phase' = "ROLES"
    /\ timers'["role_display"] = "pending"

\* C16: a successful role assignment selects one spy among the connected
\* players and gives exactly the other connected players a role of the
\* selected location; with fewer connected players than MIN_PLAYERS the
\* assignment fails and the spy is not set
C16_RoleAssignment ==
    /\ [](Cardinality(ConnectedPlayers) < MIN_PLAYERS =>
            \A location \in LocationDraws, spy \in SpyDraws :
               \A draw \in RoleDrawsOf(location, spy) :
                  LET a == assign_roles(location, spy, draw) IN
                  /\ a.status # "ok"
                  /\ a.spy_name = spy_name)
    /\ [][RolesAssigned =>
            /\ spy_name' \in ConnectedPlayers
            /\ DOMAIN player_roles' = ConnectedPlayers \ {spy_name'}
            /\ \A n \in DOMAIN player_roles' :
                  player_roles'[n] \in Range(LocationById(current_location').roles)]_vars

\* roles were assigned for a round: a spy and three players with roles
C16_Witness ==
    /\ phase = "ROLES"
    /\ timers["role_display"] = "pending"
    /\ spy_name \in ConnectedPlayers
    /\ Cardinality(DOMAIN player_roles) = 3

\* three players are connected and a location can be drawn: the assignment
\* gets as far as the player count
C16_TooFewWitness ==
    /\ Cardinality(ConnectedPlayers) = MIN_PLAYERS - 1
    /\ get_random_location(config.location_pack) # {}
    /\ loaded_packs # {}

\* the votes of vs that name a target
CastFor(vs, t) == {v \in DOMAIN vs : ~vs[v].abstained /\ vs[v].target = t}

\* r is the tally the claim describes for the votes vs
TallyOf(vs, r) ==
    /\ \A t \in Names : r.vote_counts[t] = Cardinality(CastFor(vs, t))
    /\ (\A t \in Names : CastFor(vs, t) = {}) => r.convicted = None
    /\ (\E t \in Names : CastFor(vs, t) # {}) =>
          /\ r.convicted \in Names
          /\ \A t \in Names :
                \/ Cardinality(CastFor(vs, t))
                      < Cardinality(CastFor(vs, r.convicted))
                \/ /\ Cardinality(CastFor(vs, t))
                         = Cardinality(CastFor(vs, r.convicted))
                   /\ NamePos(r.convicted) <= NamePos(t)

\* C17: the tally counts the votes per target without the abstentions, the
\* convicted player has the highest count, the earliest name winning a tie,
\* and nobody is convicted when no vote names a target
C17_VoteTally ==
    /\ TallyOf(votes, calculate_vote_results(votes))
    /\ vote_results.computed =>
          /\ TallyOf(votes, vote_results)
          /\ convicted_player = vote_results.convicted

\* a tally was computed in which alice and bob tie with two votes each
C17_Witness ==
    /\ vote_results.computed
    /\ Cardinality(CastFor(votes, "alice")) = 2
    /\ Cardinality(CastFor(votes, "bob")) = 2
    /\ convicted_player = "alice"

\* a tally was computed over abstentions only
C17_AbstainWitness ==
    /\ vote_results.computed
    /\ DOMAIN votes # {}
    /\ \A v \in DOMAIN votes : votes[v].abstained
    /\ convicted_player = None

\* process_conviction has scored the round
Scored == DOMAIN round_scores # {}

\* n cast a vote that names a target
VotedNormally(n) == n \in DOMAIN votes /\ ~votes[n].abstained

\* the spy voted with confidence 3 for another player, who was convicted
DoubleAgent ==
    /\ spy_guess = <<>>
    /\ VotedNormally(spy_name)
    /\ votes[spy_name].confidence = 3
    /\ votes[spy_name].target # spy_name
    /\ votes[spy_name].target = convicted_player

\* the score of n's vote alone: +2c for the spy, -c for anyone else, 0
\* without a vote or without a conviction
VotePoints(n) ==
    IF convicted_player = None \/ ~VotedNormally(n) THEN 0
    ELSE IF votes[n].target = spy_name THEN 2 * votes[n].confidence
    ELSE 0 - votes[n].confidence

\* C18 as stated: without a spy guess every player's round score is the
\* score of their vote
C18_VoteScores ==
    (Scored /\ spy_guess = <<>>) =>
        \A n \in DOMAIN players : round_scores[n].points = VotePoints(n)

\* C18: without a spy guess every player's round score is the score of
\* their vote, the spy's Double-Agent bonus apart
C18_VoteScoresBonusApart ==
    (Scored /\ spy_guess = <<>>) =>
        \A n \in DOMAIN players :
           (n # spy_name \/ ~DoubleAgent) =>
               round_scores[n].points = VotePoints(n)

\* a round was scored in which one player was right with confidence 2,
\* one was wrong with confidence 1 and one abstained
C18_Witness ==
    /\ Scored
    /\ spy_guess = <<>>
    /\ \E a, b, c \in DOMAIN players :
          /\ VotedNormally(a) /\ votes[a].target = spy_name
          /\ votes[a].confidence = 2 /\ round_scores[a].points = 4
          /\ VotedNormally(b) /\ votes[b].target # spy_name
          /\ votes[b].confidence = 1 /\ round_scores[b].points = -1
          /\ c \in DOMAIN votes /\ votes[c].abstained
          /\ round_scores[c].points = 0

\* the bonus in the spy's round score: what exceeds the score of the vote
\* or of the guess
SpyBonus ==
    round_scores[spy_name].points
      - (IF spy_guess = <<>> THEN VotePoints(spy_name)
         ELSE IF spy_guess[1].correct THEN POINTS_SPY_GUESS_CORRECT
         ELSE POINTS_SPY_GUESS_WRONG)

\* C19: the spy's round score holds the Double-Agent bonus of 10 exactly
\* when the spy voted with confidence 3 for another player and that player
\* was convicted, the round score then being 7; otherwise the bonus is 0
C19_DoubleAgentBonus ==
    /\ \A target \in Names \cup {None}, convicted \in Names \cup {None},
          c \in ScoreConfidences, spy \in Names :
          LET bonus == calculate_double_agent_bonus(target, convicted, c, spy)
          IN  /\ bonus \in {0, POINTS_DOUBLE_AGENT_BONUS}
              /\ bonus = POINTS_DOUBLE_AGENT_BONUS <=>
                    (target # None /\ c = 3 /\ target # spy /\ target = convicted)
    /\ Scored =>
          /\ DoubleAgent => /\ SpyBonus = POINTS_DOUBLE_AGENT_BONUS
                            /\ round_scores[spy_name].points = 7
          /\ ~DoubleAgent => SpyBonus = 0

\* the spy went all in on an innocent player who was convicted
C19_Witness ==
    /\ Scored
    /\ DoubleAgent
    /\ round_scores[spy_name].points = 7

\* the spy's target was convicted, the spy's confidence being below 3
C19_LowConfidenceWitness ==
    /\ Scored
    /\ spy_guess = <<>>
    /\ VotedNormally(spy_name)
    /\ votes[spy_name].target = convicted_player
    /\ votes[spy_name].confidence = 2
    /\ round_scores[spy_name].points = -2

\* C20: after a location guess the spy's round score is 10 for a correct
\* guess and -5 for a wrong one, and every other player's is 0 whatever
\* vote is stored for them
C20_GuessScores ==
    (Scored /\ spy_guess # <<>>) =>
        /\ round_scores[spy_name].points =
              (IF spy_guess[1].correct THEN 10 ELSE -5)
        /\ \A n \in DOMAIN players \ {spy_name} : round_scores[n].points = 0

\* a correct guess was scored while another player's vote named the spy
C20_Witness ==
    /\ Scored
    /\ spy_guess # <<>>
    /\ spy_guess[1].correct
    /\ round_scores[spy_name].points = 10
    /\ \E n \in DOMAIN players \ {spy_name} :
          /\ VotedNormally(n)
          /\ votes[n].target = spy_name
          /\ round_scores[n].points = 0

\* a wrong guess was scored
C20_WrongGuessWitness ==
    /\ Scored
    /\ spy_guess # <<>>
    /\ ~spy_guess[1].correct
    /\ round_scores[spy_name].points = -5

(***************************************************************************)
(* Sessions and connections                                                *)
(***************************************************************************)
\* C21: the registry by name and the registry by token describe the same
\* sessions: every registered player's token is registered and stands for
\* that player, and every registered token stands for the player
\* registered under its session's name
C21_RegistriesAgree ==
    /\ \A n \in DOMAIN players :
          /\ players[n].session_token \in DOMAIN sessions
          /\ sessions[players[n].session_token].name = n
    /\ \A token \in DOMAIN sessions : Registered(token)

\* a join message was accepted under a name that was registered
JoinedOver(name) ==
    /\ name \in DOMAIN players
    /\ issued'[name] = issued[name] + 1

C23_TimestampWhileDisconnected ==
    \A n \in DOMAIN players :
       (players[n].disconnected_at # <<>>) <=> ~players[n].connected

\* the disconnect-grace timer of a registered player ran to its end
GraceExpired(name) ==
    /\ name \in DOMAIN players
    /\ timers[GraceTimer(name)] = "pending"
    /\ timers'[GraceTimer(name)] = "done"

\* C24: when the grace timer started at the drop of a player's connection
\* fires, no reconnect having cancelled it, the player is marked
\* disconnected, with its timestamp set, and its reconnect_window timer is
\* started
C24_GraceExpiryMarksDisconnected ==
    [][\A name \in Names : GraceExpired(name) =>
          /\ name \in DOMAIN players'
          /\ ~players'[name].connected
          /\ players'[name].disconnected_at # <<>>
          /\ timers'[ReconnectTimer(name)] = "pending"
      ]_vars

\* the reconnect_window timer of a registered player ran to its end and
\* the player left the game
Evicted(name) ==
    /\ name \in DOMAIN players
    /\ name \notin DOMAIN players'
    /\ timers[ReconnectTimer(name)] = "pending"
    /\ timers'[ReconnectTimer(name)] = "done"

\* C25: a player marked disconnected at t1 is not evicted before t1 plus
\* the reconnection window, whatever disconnects and reconnects came
\* before t1
C25_FreshWindow ==
    [][\A name \in Names :
          (Evicted(name) /\ players[name].disconnected_at # <<>>) =>
             now >= players[name].disconnected_at[1]
                       + RECONNECT_WINDOW_SECONDS
      ]_vars

\* the reconnect_window timer of a registered player ran to its end
WindowExpired(name) ==
    /\ name \in DOMAIN players
    /\ timers[ReconnectTimer(name)] = "pending"
    /\ timers'[ReconnectTimer(name)] = "done"

\* C26: when a player's reconnect_window timer expires the player leaves
\* the registry by name and its token leaves the registry by token, in
\* every phase and whether the player is connected or not
C26_WindowExpiryEvicts ==
    [][\A name \in Names : WindowExpired(name) =>
          /\ name \notin DOMAIN players'
          /\ players[name].session_token \notin DOMAIN sessions'
          /\ \A token \in DOMAIN sessions' : sessions'[token].name # name
          /\ player_count' = Cardinality(DOMAIN players')
      ]_vars

\* bob was evicted after the game left the lobby, his restored connection
\* being open
C26_Witness ==
    /\ timers[ReconnectTimer("bob")] = "done"
    /\ "bob" \notin DOMAIN players
    /\ <<"bob", 1>> \notin DOMAIN sessions
    /\ issued["bob"] = 1
    /\ "bob" \in ws_open
    /\ phase = "ROLES"

\* the state _on_player_disconnect leaves: the player is marked
\* disconnected and its reconnect_window timer runs
AwaitedBack(name) ==
    /\ name \in DOMAIN players
    /\ ~players[name].connected
    /\ timers[ReconnectTimer(name)] = "pending"

\* C27: a player marked disconnected, the reconnection window running, is
\* eventually removed from the registry unless it reconnects, whatever
\* phase changes, round changes or game end come in between
C27_DisconnectedEventuallyRemoved ==
    \A name \in DisconnectNames :
       AwaitedBack(name) ~>
          (name \notin DOMAIN players \/ players[name].connected)

\* what the removal of player_name asked by the connection of name needs
RemovalAllowed(name, player_name) ==
    /\ phase = "LOBBY"
    /\ name \in DOMAIN players
    /\ players[name].is_host
    /\ host_id = name
    /\ player_name \in DOMAIN players
    /\ player_name # name
    /\ ~players[player_name].connected
    /\ players[player_name].disconnected_at # <<>>
    /\ now - players[player_name].disconnected_at[1]
          >= MIN_DISCONNECT_DURATION_FOR_REMOVAL

\* C28: the admin action remove_player succeeds only in LOBBY, asked by
\* the current host, for another registered player marked disconnected for
\* at least the minimum duration; a refused removal leaves both registries
\* and the timers as they were
C28_RemovalOnlyWhenAllowed ==
    \A name \in Names, player_name \in Names :
       LET r == admin_remove_player(name, player_name) IN
       /\ r.err = None => RemovalAllowed(name, player_name)
       /\ r.err # None =>
             /\ r.players = players
             /\ r.sessions = sessions
             /\ r.timers = timers

\* bob left the registries before any reconnection window could be over:
\* the host removed him
C28_Witness ==
    /\ phase = "LOBBY"
    /\ host_id = "alice"
    /\ "alice" \in DOMAIN players
    /\ "bob" \notin DOMAIN players
    /\ <<"bob", 1>> \notin DOMAIN sessions
    /\ issued["bob"] = 1
    /\ now >= MIN_DISCONNECT_DURATION_FOR_REMOVAL
    /\ now < RECONNECT_WINDOW_SECONDS
    /\ timers[ReconnectTimer("bob")] = "none"

\* the player behind the connection is not the current host of the game
NotCurrentHost(name) ==
    \/ name \notin DOMAIN players
    \/ ~players[name].is_host
    \/ host_id # name

\* C29: configure and the admin actions remove_player, start_game and
\* advance_turn are refused, before anything is changed, when the player
\* of the sending connection is not the current host
C29_HostOnly ==
    \A name \in ws_open :
       NotCurrentHost(name) =>
          /\ AdminError(name) # None
          /\ ConfigureError(name) # None

\* the game has no room for another player
Full == Cardinality(DOMAIN players) >= MAX_PLAYERS

\* C30 as stated: a join is refused whenever the phase is not LOBBY or
\* the game is at its maximum capacity
C30_JoinRefusedWhenFull ==
    \A name \in CrowdNames :
       (phase # "LOBBY" \/ Full) => JoinError(name) # None

\* C30: a join is refused whenever the phase is not LOBBY, or the game is
\* at its maximum capacity and the name is not registered; the registered
\* players never exceed the maximum, and outside LOBBY no step changes
\* either registry
C30_JoinRefusedWhenFullForNewName ==
    /\ [](\A name \in CrowdNames :
             /\ phase # "LOBBY" => JoinError(name) = ERR_GAME_ALREADY_STARTED
             /\ (phase = "LOBBY" /\ Full /\ name \notin DOMAIN players)
                   => JoinError(name) = ERR_GAME_FULL)
    /\ [](Cardinality(DOMAIN players) <= MAX_PLAYERS)
    /\ [][phase # "LOBBY" =>
             (players' = players /\ sessions' = sessions)]_vars

\* the lobby is full: the client left outside is refused, alice's
\* join under her registered name is not
C30_Witness ==
    /\ phase = "LOBBY"
    /\ Cardinality(DOMAIN players) = MAX_PLAYERS
    /\ "alice" \in DOMAIN players
    /\ JoinError("alice") = None
    /\ \E name \in CrowdNames \ DOMAIN players :
          JoinError(name) = ERR_GAME_FULL

\* the game was started under a lobby with room left: every join is
\* refused
C30_StartedWitness ==
    /\ phase = "ROLES"
    /\ Cardinality(DOMAIN players) < MAX_PLAYERS
    /\ \A name \in CrowdNames : JoinError(name) = ERR_GAME_ALREADY_STARTED

(***************************************************************************)
(* The timer registry on its own: start_timer, cancel_timer,               *)
(* cancel_all_timers and the end of a _timer_task, for the phase timers    *)
(***************************************************************************)
timerOther == <<phase, previous_phase, players, host_id, votes, spy_guess,
                spy_action_taken, convicted_player, vote_results,
                round_scores, spy_caught, config, current_round,
                game_started, player_count, spy_name, current_location,
                player_roles, vote_caller, loaded_packs, suspended,
                score_before, conviction_calls, late_votes, ws_open,
                disconnects, transition_result, turn_order,
                current_questioner_id, current_answerer_id, sessions,
                issued, now, window_due>>

StartTimer(name) ==
    /\ timers' = start_timer(timers, name)
    /\ tasks' = start_timer_tasks(tasks, timers, name)
    /\ UNCHANGED timerOther

CancelTimer(name) ==
    /\ timers' = cancel_timer(timers, name)
    /\ tasks' = cancel_timer_tasks(tasks, timers, name)
    /\ UNCHANGED timerOther

CancelAllTimers ==
    /\ timers' = cancel_all_timers(timers)
    /\ tasks' = [t \in TimerNames |-> 0]
    /\ UNCHANGED timerOther

\* a task's sleep is over and its callback ran; an exception the callback
\* raises is logged and the task finishes all the same.  The task is the
\* registered one when no other task of the name is running
TimerTaskDone(name, raises) ==
    /\ tasks[name] > 0
    /\ tasks' = [tasks EXCEPT ![name] = @ - 1]
    /\ \E registered \in (IF tasks[name] > 1 THEN BOOLEAN ELSE {TRUE}) :
          timers' = IF registered THEN timer_done(timers, name) ELSE timers
    /\ UNCHANGED timerOther

NextTimers ==
    \/ \E name \in PhaseTimers : StartTimer(name)
    \/ \E name \in PhaseTimers : CancelTimer(name)
    \/ CancelAllTimers
    \/ \E name \in PhaseTimers, raises \in BOOLEAN : TimerTaskDone(name, raises)

SpecTimers == Init /\ [][NextTimers]_vars

\* C31: every timer name has at most one running task, and has one exactly
\* when its entry is that of an unfinished task; a callback runs only as
\* the one running task of its name, the one started last
C31_OneLiveTimerPerName ==
    /\ [](\A t \in TimerNames :
             /\ tasks[t] <= 1
             /\ (tasks[t] = 1 <=> timers[t] = "pending"))
    /\ [][\A t \in TimerNames :
             tasks'[t] < tasks[t] /\ timers'[t] = "done"
                => tasks[t] = 1 /\ timers[t] = "pending"]_vars

\* a timer was started under a name whose timer was running, and two
\* names have a running timer each
C31_Witness ==
    /\ timers["round"] = "pending" /\ tasks["round"] = 1
    /\ timers["vote"] = "pending" /\ tasks["vote"] = 1
    /\ timers["scoring"] = "done" /\ tasks["scoring"] = 0

\* C32: no entry of the registry is that of a task whose callback has run
C32_NoStaleEntry == \A t \in TimerNames : timers[t] # "done"

(***************************************************************************)
(* The host configures the game                                            *)
(***************************************************************************)
\* configure messages over the three fields, each with a value inside and
\* a value outside what GameConfig.validate accepts, and an unknown field
ConfigureInputs ==
    {<<"round_duration_minutes", 10>>, <<"round_duration_minutes", 999>>,
     <<"num_rounds", 1>>, <<"num_rounds", 0>>,
     <<"location_pack", "custom">>, <<"location_pack", "nowhere">>,
     <<"rounds", 1>>}

ConfigFields == {"round_duration_minutes", "num_rounds", "location_pack"}

NextConfig ==
    \/ \E name \in SessionNames, is_host \in BOOLEAN :
          /\ is_host => name \in SessionHostNames
          /\ name \notin DOMAIN players
          /\ HandleJoin(name, is_host)
    \/ \E name \in SessionNames, c \in ConfigureInputs :
          HandleConfigure(name, c[1], c[2])
    \/ \E new_phase \in SessionPhases : TransitionTo(new_phase)

SpecConfig == Init /\ [][NextConfig]_vars

\* C33 as stated: an update_config that is rejected leaves every field of
\* the configuration at the value it had
C33_RejectedUpdateKeepsConfig ==
    \A c \in ConfigureInputs :
       ~update_config(c[1], c[2]).ok
          => update_config(c[1], c[2]).config = config

\* C33: an update_config rejected for the phase or for an unknown field
\* leaves the configuration as it was; one rejected because the written
\* value fails validation leaves every field at its default; an accepted
\* one changes the named field only
C33_RejectedUpdateKeepsOrResets ==
    \A c \in ConfigureInputs :
       LET r == update_config(c[1], c[2])
       IN /\ (~r.ok /\ (phase # "LOBBY" \/ c[1] \notin ConfigFields))
                => r.config = config
          /\ (~r.ok /\ phase = "LOBBY" /\ c[1] \in ConfigFields)
                => /\ r.config = GameConfig
                   /\ r.err \in {ERR_CONFIG_INVALID_DURATION,
                                 ERR_CONFIG_INVALID_ROUNDS,
                                 ERR_CONFIG_INVALID_PACK}
          /\ r.ok => /\ phase = "LOBBY"
                     /\ r.config = [config EXCEPT ![c[1]] = c[2]]
                     /\ validate(r.config) = None

\* the host has set two fields, and an invalid value for the third is
\* refused with all three back at their defaults
C33_Witness ==
    /\ phase = "LOBBY"
    /\ config.num_rounds = 1
    /\ config.round_duration_minutes = 10
    /\ ~update_config("location_pack", "nowhere").ok
    /\ update_config("location_pack", "nowhere").config = GameConfig
    /\ ~update_config("rounds", 1).ok
    /\ update_config("rounds", 1).config = config

\* outside the lobby every update is refused and nothing is written
C33_StartedWitness ==
    /\ phase = "ROLES"
    /\ config # GameConfig
    /\ \A c \in ConfigureInputs :
          /\ update_config(c[1], c[2]).err = ERR_CONFIG_GAME_STARTED
          /\ update_config(c[1], c[2]).config = config

(***************************************************************************)
(* A game that is paused and resumed while its timers run                  *)
(***************************************************************************)
\* transition_to(PAUSED) from whichever phase the game is in
Pause == TransitionTo("PAUSED")

\* transition_to back to the remembered phase
Resume ==
    /\ phase = "PAUSED"
    /\ previous_phase # None
    /\ TransitionTo(previous_phase)

\* the game, of one round or of five, is started and played through its
\* timers, call_vote and transition_to_scoring; the pause does not touch
\* the timers, which fire in whichever phase they find
NextPaused ==
    \/ \E name \in JoinNames, is_host \in BOOLEAN :
          /\ is_host => name \in HostNames
          /\ name \notin DOMAIN players
          /\ HandleJoin(name, is_host)
    \/ \E name \in HostNames, location \in LocationDraws, spy \in SpyDraws :
          \E draw \in RoleDrawsOf(location, spy) :
             HandleStartGame(name, location, spy, draw)
    \/ \E name \in HostNames, c \in SessionConfigInputs :
          HandleConfigure(name, c[1], c[2])
    \/ \E name \in CallerNames : HandleCallVote(name)
    \/ PhaseTimerSteps
    \/ TransitionToScoring
    \/ ScoringTimerStep
    \/ Pause
    \/ Resume

SpecPaused == Init /\ [][NextPaused]_vars

\* C34: a phase is remembered in previous_phase exactly while the game is
\* PAUSED
C34_PreviousPhaseIffPaused == (previous_phase # None) <=> (phase = "PAUSED")

(***************************************************************************)
(* Rounds played while a player drops out                                  *)
(***************************************************************************)
\* four players join and the host starts the game; the rounds go through
\* their timers, call_vote and transition_to_scoring.  One player's socket
\* closes and PlayerSession.disconnect marks it, so that fewer than
\* MIN_PLAYERS are connected when the next round is to start
NextRound ==
    \/ \E name \in JoinNames, is_host \in BOOLEAN :
          /\ is_host => name \in HostNames
          /\ name \notin DOMAIN players
          /\ HandleJoin(name, is_host)
    \/ \E name \in HostNames, location \in LocationDraws, spy \in SpyDraws :
          \E draw \in RoleDrawsOf(location, spy) :
             HandleStartGame(name, location, spy, draw)
    \/ \E name \in CallerNames : HandleCallVote(name)
    \/ PhaseTimerSteps
    \/ TransitionToScoring
    \/ ScoringTimerStep
    \/ \E name \in DisconnectNames : SocketClosed(name)
    \/ \E name \in DisconnectNames : Disconnect(name)
    \/ \E name \in DisconnectNames : OnDisconnectGraceExpired(name)

SpecRound == Init /\ [][NextRound]_vars

\* the scoring timer ran start_next_round and the phase is still SCORING:
\* role assignment failed
FailedRoundStart ==
    /\ phase = "SCORING" /\ phase' = "SCORING"
    /\ timers["scoring"] = "pending" /\ timers'["scoring"] # "pending"

\* C35: a start_next_round that fails in role assignment leaves the phase,
\* the round number, the recorded votes and the other timers as they were
C35_FailedRoundStartKeepsState ==
    [][FailedRoundStart =>
          /\ current_round' = current_round
          /\ votes' = votes
          /\ \A t \in TimerNames \ {"scoring"} : timers'[t] = timers[t]]_vars

(***************************************************************************)
(* Questioning turns while a player drops out                              *)
(***************************************************************************)
\* the game is started, the host advances the turn; one player's socket
\* closes, it is marked disconnected and its reconnect window runs out
NextTurns ==
    \/ \E name \in JoinNames, is_host \in BOOLEAN :
          /\ is_host => name \in HostNames
          /\ name \notin DOMAIN players
          /\ HandleJoin(name, is_host)
    \/ \E name \in HostNames, location \in LocationDraws, spy \in SpyDraws :
          \E draw \in RoleDrawsOf(location, spy) :
             HandleStartGame(name, location, spy, draw)
    \/ OnRoleDisplayComplete
    \/ \E name \in HostNames : HandleAdvanceTurn(name)
    \/ \E name \in DisconnectNames : SocketClosed(name)
    \/ \E name \in DisconnectNames : Disconnect(name)
    \/ \E name \in DisconnectNames : OnDisconnectGraceExpired(name)
    \/ \E name \in DisconnectNames : OnReconnectWindowExpired(name)
    \/ Tick

SpecTurns == Init /\ [][NextTurns]_vars

\* C36: whatever advance_turn leaves during QUESTIONING, the questioner and
\* the answerer are two different registered, connected players
C36_AdvanceSkipsDisconnected ==
    (phase = "QUESTIONING" /\ Len(turn_order) >= 2)
       => \A order \in TurnOrderDraws :
             LET t == advance_turn(order) IN
             /\ t.current_questioner_id # t.current_answerer_id
             /\ t.current_questioner_id \in ConnectedPlayers
             /\ t.current_answerer_id \in ConnectedPlayers

\* C37: every step that changes the phase follows an edge of
\* VALID_TRANSITIONS
C37_PhaseChangesFollowTable ==
    [][phase' # phase => phase' \in VALID_TRANSITIONS[phase]]_vars

\* C38: each timed phase has its driving timer pending: role_display in
\* ROLES, round in QUESTIONING, vote in VOTE unless the last vote's handler
\* is on its way to REVEAL, scoring in SCORING
C38_TimedPhaseHasTimer ==
    /\ phase = "ROLES" => timers["role_display"] = "pending"
    /\ phase = "QUESTIONING" => timers["round"] = "pending"
    /\ phase = "VOTE" =>
          \/ timers["vote"] = "pending"
          \/ suspended # {} /\ all_votes_submitted(votes)
    /\ phase = "SCORING" => timers["scoring"] = "pending"

(***************************************************************************)
(* A finished game taken back to the lobby                                 *)
(***************************************************************************)
\* transition_to(LOBBY) once the game has ended
ReturnToLobby ==
    /\ phase = "END"
    /\ TransitionTo("LOBBY")

\* a game of one round or of five is played to its end, returned to the
\* lobby, and the host sends start_game again
NextReplay ==
    \/ \E name \in JoinNames, is_host \in BOOLEAN :
          /\ is_host => name \in HostNames
          /\ name \notin DOMAIN players
          /\ HandleJoin(name, is_host)
    \/ \E name \in HostNames, c \in SessionConfigInputs :
          HandleConfigure(name, c[1], c[2])
    \/ \E name \in HostNames, location \in LocationDraws, spy \in SpyDraws :
          \E draw \in RoleDrawsOf(location, spy) :
             HandleStartGame(name, location, spy, draw)
    \/ \E name \in CallerNames : HandleCallVote(name)
    \/ PhaseTimerSteps
    \/ TransitionToScoring
    \/ ScoringTimerStep
    \/ ReturnToLobby

SpecReplay == Init /\ [][NextReplay]_vars

\* C39: in the lobby reached from END the round counter is 0, the game is
\* not marked as started, and start_game is not refused when enough players
\* are connected
C39_FreshLobbyAfterEnd ==
    (phase = "LOBBY" /\ transition_result.to = "LOBBY" /\ transition_result.ok)
       => /\ current_round = 0
          /\ ~game_started
          /\ (Cardinality(ConnectedPlayers) >= MIN_PLAYERS
                 => can_start_game = None)

(***************************************************************************)
(* The same round under another draw of the spy                            *)
(***************************************************************************)
\* the phases of a round before the votes are revealed
SecretPhases == {"ROLES", "QUESTIONING", "VOTE"}

\* the state assign_roles would have left had secrets.choice picked spy
\* instead of spy_name: the location and the roles of the players who are
\* the spy under neither draw are the same, the former spy holds a role
RedrawSpy(spy, draw) ==
    /\ phase \in SecretPhases
    /\ spy_name # None
    /\ current_location # None
    /\ spy_guess = <<>>
    /\ spy \in ConnectedPlayers \ {spy_name}
    /\ draw \in RoleDraws(LocationById(current_location), spy)
    /\ \A n \in DOMAIN draw \cap DOMAIN player_roles : draw[n] = player_roles[n]
    /\ spy_name' = spy
    /\ player_roles' = draw
    /\ UNCHANGED <<phase, previous_phase, players, host_id, timers, config,
                   current_round, game_started, player_count, loaded_packs,
                   ws_open, disconnects, suspended, current_location>>
    /\ UNCHANGED <<roundVars, turnVars, sessVars, histVars>>

\* a round is started and played up to the end of the vote, under every
\* draw of the spy
NextRoles ==
    \/ \E name \in JoinNames, is_host \in BOOLEAN :
          /\ is_host => name \in HostNames
          /\ name \notin DOMAIN players
          /\ HandleJoin(name, is_host)
    \/ \E name \in HostNames, location \in LocationDraws, spy \in SpyDraws :
          \E draw \in RoleDrawsOf(location, spy) :
             HandleStartGame(name, location, spy, draw)
    \/ \E name \in CallerNames : HandleCallVote(name)
    \/ \E name \in Names, target \in TargetInputs,
          confidence \in ConfidenceInputs :
          HandleVote(name, target, confidence)
    \/ PhaseTimerSteps
    \/ Continuations
    \/ /\ current_location # None
       /\ \E spy \in Names :
             \E draw \in RoleDraws(LocationById(current_location), spy) :
                RedrawSpy(spy, draw)

SpecRoles == Init /\ [][NextRoles]_vars

\* C40: before REVEAL, two states that differ only in which player is the
\* spy give the same public snapshot and the same snapshot to every viewer
\* who is the spy in neither
C40_SpyIdentityHidden ==
    [][(phase \in SecretPhases /\ phase' = phase /\ spy_name' # spy_name)
          => \A viewer \in Viewers \ {spy_name, spy_name'} :
                get_state(viewer)' = get_state(viewer)]_vars

\* votes are being cast; bob is the spy, carol holds a role and the
\* location, and the public snapshot carries no role data
C40_Witness ==
    /\ phase = "VOTE"
    /\ spy_name = "bob"
    /\ "carol" \in DOMAIN votes
    /\ get_state("carol")["is_spy"] = FALSE
    /\ "location" \in DOMAIN get_state("carol")
    /\ "is_spy" \notin DOMAIN get_state(None)
    /\ get_state("bob")["is_spy"] = TRUE
====
